---- MODULE Spec2Model ----
(***************************************************************************)
(* A model of the I/O buffer engine of the memory manager                  *)
(* (src/kernel/mm/iobuf.c): one I/O buffer descriptor, the operations on   *)
(* it, and the collaborators it calls (physical page allocator, kernel     *)
(* virtual address allocator, pager, page cache).                          *)
(*                                                                         *)
(* Addresses and sizes are byte counts.  Physical page n covers the bytes  *)
(* n*PageSize .. (n+1)*PageSize-1, and so does virtual page n.             *)
(* Assertions on the arguments of a public routine are preconditions of    *)
(* the corresponding action; assertions in the middle of a routine are     *)
(* compiled out, and the code after them runs.                             *)
(***************************************************************************)
EXTENDS Integers, Sequences, FiniteSets, TLC

(***************************************************************************)
(* Bounds of the model.                                                    *)
(***************************************************************************)
MaxBufferPages == 2
MaxTablePages == 3
\* The most times the pager answers STATUS_TRY_AGAIN for one page.
MaxRetries == 1

(***************************************************************************)
(* Program constants.                                                      *)
(***************************************************************************)
PageSize == 2
NULL == 0
INVALID_PHYSICAL_ADDRESS == 0
KERNEL_VA_START == 16

IO_BUFFER_FLAG_MEMORY_OWNED == "MEMORY_OWNED"
IO_BUFFER_FLAG_STRUCTURE_NOT_OWNED == "STRUCTURE_NOT_OWNED"
IO_BUFFER_FLAG_MEMORY_LOCKED == "MEMORY_LOCKED"
IO_BUFFER_FLAG_NON_PAGED == "NON_PAGED"
IO_BUFFER_FLAG_PAGE_CACHE_BACKED == "PAGE_CACHE_BACKED"
IO_BUFFER_FLAG_USER_MODE == "USER_MODE"
IO_BUFFER_FLAG_MAPPED == "MAPPED"
IO_BUFFER_FLAG_VIRTUALLY_CONTIGUOUS == "VIRTUALLY_CONTIGUOUS"
IO_BUFFER_FLAG_UNMAP_ON_FREE == "UNMAP_ON_FREE"
IO_BUFFER_FLAG_EXTENDABLE == "EXTENDABLE"

STATUS_SUCCESS == "STATUS_SUCCESS"
STATUS_NO_MEMORY == "STATUS_NO_MEMORY"
STATUS_BUFFER_TOO_SMALL == "STATUS_BUFFER_TOO_SMALL"
STATUS_INSUFFICIENT_RESOURCES == "STATUS_INSUFFICIENT_RESOURCES"
STATUS_INVALID_PARAMETER == "STATUS_INVALID_PARAMETER"
STATUS_ACCESS_VIOLATION == "STATUS_ACCESS_VIOLATION"
STATUS_TRY_AGAIN == "STATUS_TRY_AGAIN"
STATUS_INCORRECT_BUFFER_SIZE == "STATUS_INCORRECT_BUFFER_SIZE"

ALIGN_RANGE_UP(Value, Size) == ((Value + Size - 1) \div Size) * Size
ALIGN_RANGE_DOWN(Value, Size) == (Value \div Size) * Size
IS_ALIGNED(Value, Size) == Value % Size = 0
REMAINDER(Value, Size) == Value % Size

(***************************************************************************)
(* The collaborators' universe.  Page numbers, not addresses.              *)
(***************************************************************************)
\* Pages the physical page allocator can hand out (1 and 2 are adjacent).
AllocPages == {1, 2, 4}
\* A page the caller owns and describes with MmIoBufferAppendPage.
CallerPages == {5}
\* Page cache entries.  Entries 1 and 2 have pages of their own; entry 3 is
\* the entry the page cache creates when it adopts allocator page 2.
CacheEntries == {1, 2, 3}
\* Pages the pager locks for MmCreateIoBuffer without a cache entry.
PagerPages == {8, 9}
Pages == 1 .. 9

\* Kernel virtual pages MmpAllocateAddressRange can reserve.
VaPool == {8, 9, 10}
\* A kernel virtual page the caller mapped itself.
CallerVaPages == {11}
VaPages == 8 .. 13

PageCacheEntryPage(Entry) == IF Entry = 3 THEN 2 ELSE 5 + Entry
\* The kernel virtual page at which the page cache maps an entry, when it has
\* mapped it (entry 3 starts out unmapped).
PageCacheEntryVaPage(Entry) == 11 + Entry

IoGetPageCacheEntryPhysicalAddress(Entry) == PageCacheEntryPage(Entry) * PageSize

(***************************************************************************)
(* The descriptor.                                                         *)
(***************************************************************************)
EmptyFragment == [VirtualAddress |-> NULL,
                  PhysicalAddress |-> INVALID_PHYSICAL_ADDRESS,
                  Size |-> 0]

\* RtlZeroMemory of a fresh descriptor with its two tables.  PceAllocated is
\* Internal.PageCacheEntries != NULL.  Overrun records a write to a fragment
\* table entry that lies outside the table.
ZeroedIoBuffer(MaxFragmentCount, PageCount, PceAllocated) ==
    [Flags |-> {},
     TotalSize |-> 0,
     CurrentOffset |-> 0,
     FragmentCount |-> 0,
     MaxFragmentCount |-> MaxFragmentCount,
     PageCount |-> PageCount,
     Fragment |-> [i \in 0 .. MaxFragmentCount - 1 |-> EmptyFragment],
     PceAllocated |-> PceAllocated,
     PageCacheEntries |->
         [i \in 0 .. (IF PceAllocated THEN PageCount ELSE 0) - 1 |-> NULL],
     Overrun |-> FALSE]

NoBuffer == ZeroedIoBuffer(0, 0, FALSE)

\* A store to IoBuffer->Fragment[Index].
WriteFragment(b, Index, Fragment) ==
    IF Index < b.MaxFragmentCount
    THEN [b EXCEPT !.Fragment[Index] = Fragment]
    ELSE [b EXCEPT !.Overrun = TRUE]

\* A load of IoBuffer->Fragment[Index]; beyond the table the memory read is
\* not a fragment the buffer describes.
ReadFragment(b, Index) ==
    IF Index < b.MaxFragmentCount THEN b.Fragment[Index] ELSE EmptyFragment

\* A load of PageCacheEntries[Index]; beyond the table the value read is
\* whatever lies behind the allocation (Garbage).
ReadPageCacheEntry(b, Index, Garbage) ==
    IF b.PceAllocated /\ Index < b.PageCount
    THEN b.PageCacheEntries[Index]
    ELSE Garbage

RECURSIVE SumFragmentSizes(_, _)
SumFragmentSizes(b, Count) ==
    IF Count = 0 THEN 0
    ELSE SumFragmentSizes(b, Count - 1) + ReadFragment(b, Count - 1).Size

(***************************************************************************)
(* MmpUnmapIoBuffer.  CacheVa is the page cache's current virtual address  *)
(* of every entry (IoGetPageCacheEntryVirtualAddress).  The loop state s   *)
(* carries the routine's locals and the ranges handed to                   *)
(* MmpFreeAccountingRange so far.                                          *)
(***************************************************************************)
RECURSIVE UnmapFragmentPages(_, _, _, _, _, _, _)
UnmapFragmentPages(b, CacheVa, Garbage, s, PageIndex, PageCount, CurrentAddress) ==
    IF PageIndex >= PageCount
    THEN [s |-> s, UnmapStartAddress |-> NULL, UnmapSize |-> 0]
    ELSE
      LET PageCacheEntry == ReadPageCacheEntry(b, s.PageCacheIndex, Garbage)
          s1 == [s EXCEPT !.FragmentOffset = @ + PageSize,
                          !.PageCacheIndex = @ + 1]
          CacheMatch == /\ PageCacheEntry # NULL
                        /\ CacheVa[PageCacheEntry] = CurrentAddress
      IN IF ~CacheMatch
         THEN IF s1.StartAddress # NULL /\ CurrentAddress # s1.EndAddress
              THEN [s |-> [s1 EXCEPT !.StartAddress = CurrentAddress,
                                     !.EndAddress = CurrentAddress + PageSize],
                    UnmapStartAddress |-> s1.StartAddress,
                    UnmapSize |-> s1.EndAddress - s1.StartAddress]
              ELSE LET s2 == IF s1.StartAddress # NULL
                             THEN [s1 EXCEPT !.EndAddress = @ + PageSize]
                             ELSE [s1 EXCEPT
                                      !.StartAddress = CurrentAddress,
                                      !.EndAddress = CurrentAddress + PageSize]
                   IN UnmapFragmentPages(b, CacheVa, Garbage, s2,
                                         PageIndex + 1, PageCount,
                                         CurrentAddress + PageSize)
         ELSE IF s1.StartAddress # NULL
              THEN [s |-> [s1 EXCEPT !.StartAddress = NULL],
                    UnmapStartAddress |-> s1.StartAddress,
                    UnmapSize |-> s1.EndAddress - s1.StartAddress]
              ELSE UnmapFragmentPages(b, CacheVa, Garbage, s1,
                                      PageIndex + 1, PageCount,
                                      CurrentAddress + PageSize)

\* The non-cache-backed arm: the fragment is treated as a whole.
UnmapWholeFragment(s, Fragment) ==
    LET Flush == s.StartAddress # NULL /\ Fragment.VirtualAddress # s.EndAddress
        s1 == IF Flush THEN [s EXCEPT !.StartAddress = NULL] ELSE s
        s2 == IF s1.StartAddress = NULL
              THEN [s1 EXCEPT !.StartAddress = Fragment.VirtualAddress,
                              !.EndAddress = Fragment.VirtualAddress]
              ELSE s1
    IN [s |-> [s2 EXCEPT !.EndAddress = @ + Fragment.Size,
                         !.FragmentIndex = @ + 1],
        UnmapStartAddress |-> IF Flush THEN s.StartAddress ELSE NULL,
        UnmapSize |-> IF Flush THEN s.EndAddress - s.StartAddress ELSE 0]

RECURSIVE UnmapLoop(_, _, _, _)
UnmapLoop(b, CacheVa, Garbage, s) ==
    IF s.FragmentIndex >= b.FragmentCount
    THEN s
    ELSE
      LET Fragment == ReadFragment(b, s.FragmentIndex)
          UsePce == IO_BUFFER_FLAG_PAGE_CACHE_BACKED \in b.Flags
      IN IF Fragment.VirtualAddress = NULL
         THEN UnmapLoop(b, CacheVa, Garbage,
                        [s EXCEPT !.FragmentIndex = @ + 1])
         ELSE
           LET r == IF UsePce
                    THEN LET pr == UnmapFragmentPages(
                                       b, CacheVa, Garbage, s, 0,
                                       (Fragment.Size - s.FragmentOffset)
                                           \div PageSize,
                                       Fragment.VirtualAddress
                                           + s.FragmentOffset)
                         IN IF pr.s.FragmentOffset >= Fragment.Size
                            THEN [pr EXCEPT !.s.FragmentOffset = 0,
                                            !.s.FragmentIndex = @ + 1]
                            ELSE pr
                    ELSE UnmapWholeFragment(s, Fragment)
               s3 == IF r.UnmapStartAddress # NULL
                     THEN [r.s EXCEPT !.Freed = Append(@,
                               <<r.UnmapStartAddress, r.UnmapSize>>)]
                     ELSE r.s
           IN UnmapLoop(b, CacheVa, Garbage, s3)

\* The ranges MmpUnmapIoBuffer passes to MmpFreeAccountingRange, in order, as
\* <<start address, size>>.
UnmapRanges(b, CacheVa, Garbage) ==
    LET s == UnmapLoop(b, CacheVa, Garbage,
                       [FragmentIndex |-> 0, FragmentOffset |-> 0,
                        PageCacheIndex |-> 0, StartAddress |-> NULL,
                        EndAddress |-> NULL, Freed |-> <<>>])
    IN IF s.StartAddress # NULL
       THEN Append(s.Freed, <<s.StartAddress, s.EndAddress - s.StartAddress>>)
       ELSE s.Freed

UnmapClearFlags(Flags) ==
    Flags \ {IO_BUFFER_FLAG_MAPPED, IO_BUFFER_FLAG_UNMAP_ON_FREE,
             IO_BUFFER_FLAG_VIRTUALLY_CONTIGUOUS}

MmpUnmapIoBuffer(b, CacheVa, Garbage) ==
    [b |-> [b EXCEPT !.Flags = UnmapClearFlags(@)],
     Ranges |-> UnmapRanges(b, CacheVa, Garbage)]

(***************************************************************************)
(* MmpReleaseIoBufferResources.  The result lists what the routine hands   *)
(* to the collaborators: Ranges to MmpFreeAccountingRange, Free to         *)
(* MmFreePhysicalPage, Release to IoPageCacheEntryReleaseReference and     *)
(* Unlock to MmpUnlockPhysicalPages.                                       *)
(***************************************************************************)
NoEvents == [Free |-> <<>>, Release |-> <<>>, Unlock |-> <<>>]

\* The arm for MEMORY_OWNED or PAGE_CACHE_BACKED buffers.  CacheEntryIndex is
\* how far the PageCacheEntries pointer has advanced.
RECURSIVE ReleaseOwnedOrCachedPages(_, _, _, _, _, _, _)
ReleaseOwnedOrCachedPages(b, Garbage, FragmentIndex, PageIndex, CacheEntryIndex, PhysicalAddress, ev) ==
    IF FragmentIndex >= b.FragmentCount
    THEN ev
    ELSE
      LET Fragment == ReadFragment(b, FragmentIndex)
          PageCount == Fragment.Size \div PageSize
      IN IF PageIndex >= PageCount
         THEN ReleaseOwnedOrCachedPages(
                  b, Garbage, FragmentIndex + 1, 0, CacheEntryIndex,
                  ReadFragment(b, FragmentIndex + 1).PhysicalAddress, ev)
         ELSE
           LET PageCacheEntry ==
                   IF b.PceAllocated
                   THEN ReadPageCacheEntry(b, CacheEntryIndex, Garbage)
                   ELSE NULL
               NextIndex == IF b.PceAllocated
                            THEN CacheEntryIndex + 1
                            ELSE CacheEntryIndex
           IN IF PageCacheEntry # NULL
              THEN ReleaseOwnedOrCachedPages(
                       b, Garbage, FragmentIndex, PageIndex + 1, NextIndex,
                       PhysicalAddress + PageSize,
                       [ev EXCEPT !.Release = Append(@, PageCacheEntry)])
              ELSE IF IO_BUFFER_FLAG_MEMORY_OWNED \in b.Flags
              THEN ReleaseOwnedOrCachedPages(
                       b, Garbage, FragmentIndex, PageIndex + 1, NextIndex,
                       PhysicalAddress + PageSize,
                       [ev EXCEPT !.Free = Append(@, PhysicalAddress)])
              ELSE ReleaseOwnedOrCachedPages(
                       b, Garbage, FragmentIndex, PageIndex + 1, NextIndex,
                       PhysicalAddress, ev)

\* The arm for buffers that are MEMORY_LOCKED only.
RECURSIVE ReleaseLockedPages(_, _, _, _, _, _)
ReleaseLockedPages(b, Garbage, FragmentIndex, PageIndex, CacheEntryIndex, ev) ==
    IF FragmentIndex >= b.FragmentCount
    THEN ev
    ELSE
      LET Fragment == ReadFragment(b, FragmentIndex)
          PageOffset == REMAINDER(Fragment.PhysicalAddress, PageSize)
          Size == ALIGN_RANGE_UP(Fragment.Size + PageOffset, PageSize)
          PageCount == Size \div PageSize
          PhysicalAddress == (Fragment.PhysicalAddress - PageOffset)
                                 + PageIndex * PageSize
      IN IF PageIndex >= PageCount
         THEN ReleaseLockedPages(b, Garbage, FragmentIndex + 1, 0,
                                 CacheEntryIndex, ev)
         ELSE
           LET PageCacheEntry ==
                   ReadPageCacheEntry(b, CacheEntryIndex, Garbage)
           IN ReleaseLockedPages(
                  b, Garbage, FragmentIndex, PageIndex + 1,
                  CacheEntryIndex + 1,
                  IF PageCacheEntry # NULL
                  THEN [ev EXCEPT !.Release = Append(@, PageCacheEntry)]
                  ELSE [ev EXCEPT !.Unlock = Append(@, PhysicalAddress)])

\* Which arm of the per-page teardown runs for a set of flags.
ReleaseArm(Flags) ==
    IF \/ IO_BUFFER_FLAG_MEMORY_OWNED \in Flags
       \/ IO_BUFFER_FLAG_PAGE_CACHE_BACKED \in Flags
    THEN "owned_or_cached"
    ELSE IF /\ IO_BUFFER_FLAG_MEMORY_OWNED \notin Flags
            /\ IO_BUFFER_FLAG_MEMORY_LOCKED \in Flags
    THEN "locked"
    ELSE "none"

ReleasePages(b, Garbage) ==
    CASE ReleaseArm(b.Flags) = "owned_or_cached" ->
             ReleaseOwnedOrCachedPages(b, Garbage, 0, 0, 0,
                                       ReadFragment(b, 0).PhysicalAddress,
                                       NoEvents)
      [] ReleaseArm(b.Flags) = "locked" ->
             ReleaseLockedPages(b, Garbage, 0, 0, 0, NoEvents)
      [] OTHER -> NoEvents

MmpReleaseIoBufferResources(b, CacheVa, Garbage) ==
    LET b0 == [b EXCEPT !.CurrentOffset = 0]
        um == IF IO_BUFFER_FLAG_UNMAP_ON_FREE \in b.Flags
              THEN MmpUnmapIoBuffer(b0, CacheVa, Garbage)
              ELSE [b |-> b0, Ranges |-> <<>>]
        ev == ReleasePages(b, Garbage)
    IN [b |-> um.b, Ranges |-> um.Ranges, Free |-> ev.Free,
        Release |-> ev.Release, Unlock |-> ev.Unlock]

(***************************************************************************)
(* State.                                                                  *)
(***************************************************************************)
VARIABLES
    IoBuffer,     \* the descriptor (NoBuffer when there is none)
    life,         \* "none", "live", "freed" or "replaced"
    last,         \* the last operation: its kind, the status it returned
                  \* and the releasing calls it made on the collaborators
    physAlloc,    \* pages currently handed out by the physical allocator
    lockCount,    \* page -> locks the pager holds on it for the buffer
    cacheRef,     \* cache entry -> reference count
    cacheVa,      \* cache entry -> its virtual address, or NULL
    vaReserved,   \* kernel virtual pages reserved by MmpAllocateAddressRange
    owned,        \* pages the subsystem allocated for the buffer
    memory,       \* physical byte address -> the byte stored there
    peer          \* the other descriptors a copy between buffers involves

vars == <<IoBuffer, life, last, physAlloc, lockCount, cacheRef, cacheVa,
          vaReserved, owned, memory, peer>>

\* The cache's own reference on every entry.
BaseReference == 1

Occurrences(Sequence, Value) ==
    Cardinality({i \in DOMAIN Sequence : Sequence[i] = Value})

PageOf(Address) == Address \div PageSize

\* How many of the ranges cover virtual page Page.
RangeCover(Ranges, Page) ==
    Cardinality({i \in DOMAIN Ranges :
                    /\ Ranges[i][1] <= Page * PageSize
                    /\ Page * PageSize < Ranges[i][1] + Ranges[i][2]})

FreedPageCount(rel, Page) ==
    Cardinality({i \in DOMAIN rel.Free : PageOf(rel.Free[i]) = Page})

UnlockedPageCount(rel, Page) ==
    Cardinality({i \in DOMAIN rel.Unlock : PageOf(rel.Unlock[i]) = Page})

\* The collaborators' state as one record.
Env ==
    [physAlloc |-> physAlloc, lockCount |-> lockCount, cacheRef |-> cacheRef,
     vaReserved |-> vaReserved]

\* The calls a routine made on the collaborators, counted per resource:
\* MmFreePhysicalPage per page, MmpUnlockPhysicalPages per page,
\* IoPageCacheEntryReleaseReference per entry, and the unmapping of a virtual
\* page.
NoCalls ==
    [Free |-> [p \in Pages |-> 0],
     Unlock |-> [p \in Pages |-> 0],
     Release |-> [e \in CacheEntries |-> 0],
     Unmap |-> [v \in VaPages |-> 0]]

UnmapCalls(Ranges) ==
    [NoCalls EXCEPT !.Unmap = [v \in VaPages |-> RangeCover(Ranges, v)]]

ReleaseCalls(rel) ==
    [Free |-> [p \in Pages |-> FreedPageCount(rel, p)],
     Unlock |-> [p \in Pages |-> UnlockedPageCount(rel, p)],
     Release |-> [e \in CacheEntries |-> Occurrences(rel.Release, e)],
     Unmap |-> [v \in VaPages |-> RangeCover(rel.Ranges, v)]]

Max(a, b) == IF a > b THEN a ELSE b

\* The collaborators' state after the calls of one release.
EnvAfterRelease(env, rel) ==
    [physAlloc |-> {p \in env.physAlloc : FreedPageCount(rel, p) = 0},
     lockCount |-> [p \in Pages |->
                       Max(0, env.lockCount[p] - UnlockedPageCount(rel, p))],
     cacheRef |-> [e \in CacheEntries |->
                      Max(0, env.cacheRef[e] - Occurrences(rel.Release, e))],
     vaReserved |-> {v \in env.vaReserved : RangeCover(rel.Ranges, v) = 0}]

\* The reserved virtual pages a cache entry has taken as its address.
CacheHeldVa(CacheVa) ==
    {v \in VaPages : \E e \in CacheEntries : CacheVa[e] = v * PageSize}

\* The page index at which the buffer describes physical page Page, or -1.
RECURSIVE PageSlot(_, _, _, _)
PageSlot(b, Page, FragmentIndex, Offset) ==
    IF FragmentIndex >= b.FragmentCount THEN -1
    ELSE LET Fragment == ReadFragment(b, FragmentIndex)
             First == PageOf(Fragment.PhysicalAddress)
         IN IF /\ Fragment.Size > 0
               /\ First <= Page
               /\ Page * PageSize < Fragment.PhysicalAddress + Fragment.Size
            THEN PageOf(Offset) + (Page - First)
            ELSE PageSlot(b, Page, FragmentIndex + 1, Offset + Fragment.Size)

\* The owned pages whose page slot holds a cache entry.
SlottedPages(b, OwnedPages) ==
    {p \in OwnedPages :
        LET Slot == PageSlot(b, p, 0, 0)
        IN /\ b.PceAllocated
           /\ Slot >= 0
           /\ Slot < b.PageCount
           /\ b.PageCacheEntries[Slot] # NULL}

EntryOrNull == CacheEntries \cup {NULL}

\* The arguments recorded for a call that none of the properties asks about.
NoArgs == <<>>

\* Physical memory byte by byte.  Every byte starts with a value of its own,
\* so that a byte that moved can be told from the byte it replaced.
PhysicalBytes == 0 .. (Cardinality(Pages) + 1) * PageSize - 1
InitialMemory == [Address \in PhysicalBytes |-> Address + 1]
NoPeers == [A |-> NoBuffer, B |-> NoBuffer]

Init ==
    /\ IoBuffer = NoBuffer
    /\ life = "none"
    /\ last = [Op |-> "none", Status |-> STATUS_SUCCESS, Calls |-> NoCalls,
               Args |-> NoArgs, Out |-> NoBuffer]
    /\ physAlloc = {}
    /\ lockCount = [p \in Pages |-> 0]
    /\ cacheRef = [e \in CacheEntries |-> BaseReference]
    /\ cacheVa \in {[e \in CacheEntries |-> NULL],
                    [e \in CacheEntries |->
                        IF e = 3 THEN NULL
                        ELSE PageCacheEntryVaPage(e) * PageSize]}
    /\ vaReserved = {}
    /\ owned = {}
    /\ memory = InitialMemory
    /\ peer = NoPeers

Did(Op, Status) ==
    last' = [Op |-> Op, Status |-> Status, Calls |-> NoCalls,
             Args |-> NoArgs, Out |-> NoBuffer]

DidWith(Op, Status, Calls) ==
    last' = [Op |-> Op, Status |-> Status, Calls |-> Calls,
             Args |-> NoArgs, Out |-> NoBuffer]

\* A call whose arguments and output buffer the properties refer to.
DidCall(Op, Status, Args, Out) ==
    last' = [Op |-> Op, Status |-> Status, Calls |-> NoCalls,
             Args |-> Args, Out |-> Out]

(***************************************************************************)
(* MmAllocateUninitializedIoBuffer.                                        *)
(***************************************************************************)
UninitializedFlags(CacheBacked) ==
    {IO_BUFFER_FLAG_NON_PAGED, IO_BUFFER_FLAG_EXTENDABLE}
    \cup (IF CacheBacked
          THEN {IO_BUFFER_FLAG_PAGE_CACHE_BACKED, IO_BUFFER_FLAG_MEMORY_LOCKED}
          ELSE {})

MmAllocateUninitializedIoBuffer(Size, CacheBacked) ==
    LET PageCount == ALIGN_RANGE_UP(Size, PageSize) \div PageSize
    IN [ZeroedIoBuffer(PageCount, PageCount, CacheBacked)
           EXCEPT !.Flags = UninitializedFlags(CacheBacked)]

AllocateUninitializedOf(Sizes) ==
    /\ life = "none"
    /\ \E Size \in Sizes, CacheBacked \in BOOLEAN :
         IoBuffer' = MmAllocateUninitializedIoBuffer(Size, CacheBacked)
    /\ life' = "live"
    /\ Did("construct", STATUS_SUCCESS)
    /\ UNCHANGED <<physAlloc, lockCount, cacheRef, cacheVa, vaReserved,
                   owned, memory, peer>>

AllocateUninitialized == AllocateUninitializedOf(1 .. MaxBufferPages * PageSize)

\* The same call for a buffer of MaxTablePages pages, whose fragment table
\* has room for a third fragment.
AllocateUninitializedTable ==
    AllocateUninitializedOf({MaxTablePages * PageSize})

(***************************************************************************)
(* MmFreeIoBuffer and MmResetIoBuffer.                                     *)
(***************************************************************************)
MmFreeIoBuffer(b, CacheVa, Garbage) ==
    MmpReleaseIoBufferResources(b, CacheVa, Garbage)

\* ResetDescriptor without the zeroing of the page cache entry array.
ResetDescriptorKeepingEntries(b) ==
    [b EXCEPT
        !.Fragment = [i \in DOMAIN b.Fragment |->
                         IF i < b.FragmentCount THEN EmptyFragment
                         ELSE b.Fragment[i]],
        !.FragmentCount = 0,
        !.TotalSize = 0,
        !.CurrentOffset = 0,
        !.Flags = @ \ {IO_BUFFER_FLAG_UNMAP_ON_FREE, IO_BUFFER_FLAG_MAPPED,
                       IO_BUFFER_FLAG_VIRTUALLY_CONTIGUOUS}]

\* ResetDescriptor without the zeroing of the fragment array.
ResetDescriptorKeepingFragments(b) ==
    [b EXCEPT
        !.FragmentCount = 0,
        !.TotalSize = 0,
        !.CurrentOffset = 0,
        !.Flags = @ \ {IO_BUFFER_FLAG_UNMAP_ON_FREE, IO_BUFFER_FLAG_MAPPED,
                       IO_BUFFER_FLAG_VIRTUALLY_CONTIGUOUS},
        !.PageCacheEntries = [i \in DOMAIN b.PageCacheEntries |-> NULL]]

\* The descriptor after MmResetIoBuffer has zeroed it.
ResetDescriptor(b) ==
    [b EXCEPT
        !.Fragment = [i \in DOMAIN b.Fragment |->
                         IF i < b.FragmentCount THEN EmptyFragment
                         ELSE b.Fragment[i]],
        !.FragmentCount = 0,
        !.TotalSize = 0,
        !.CurrentOffset = 0,
        !.Flags = @ \ {IO_BUFFER_FLAG_UNMAP_ON_FREE, IO_BUFFER_FLAG_MAPPED,
                       IO_BUFFER_FLAG_VIRTUALLY_CONTIGUOUS},
        !.PageCacheEntries = [i \in DOMAIN b.PageCacheEntries |-> NULL]]

\* The reset that follows the release rel.
ResetReleased(rel) == [rel EXCEPT !.b = ResetDescriptor(rel.b)]

MmResetIoBuffer(b, CacheVa, Garbage) ==
    ResetReleased(MmpReleaseIoBufferResources(b, CacheVa, Garbage))

\* The page cache entry tables the release walks past the end of.
NeedsGarbage(b) ==
    \/ b.TotalSize > (IF b.PceAllocated THEN b.PageCount ELSE 0) * PageSize
    \/ \E i \in 0 .. b.FragmentCount - 1 :
          \/ ~IS_ALIGNED(ReadFragment(b, i).PhysicalAddress, PageSize)
          \/ ~IS_ALIGNED(ReadFragment(b, i).Size, PageSize)

\* What such a read can yield: no entry, or a pointer to some entry.
GarbageChoices(b) == IF NeedsGarbage(b) THEN {NULL, 1} ELSE {NULL}

FreeIoBuffer ==
    /\ life = "live"
    /\ \E Garbage \in GarbageChoices(IoBuffer) :
       \E rel \in {MmFreeIoBuffer(IoBuffer, cacheVa, Garbage)} :
       \E env \in {EnvAfterRelease(Env, rel)} :
            /\ physAlloc' = env.physAlloc
            /\ lockCount' = env.lockCount
            /\ cacheRef' = env.cacheRef
            /\ vaReserved' = env.vaReserved
            /\ DidWith("release", STATUS_SUCCESS, ReleaseCalls(rel))
    /\ IoBuffer' = NoBuffer
    /\ life' = "freed"
    /\ owned' = {}
    /\ UNCHANGED <<memory, peer>>
    /\ UNCHANGED cacheVa

\* What the release of a reset left held is lost to the program for good;
\* the allocators' names for it are used again for what they hand out next.
\* last.Calls keeps what the release did.
ResetIoBuffer ==
    /\ life = "live"
    /\ IO_BUFFER_FLAG_USER_MODE \notin IoBuffer.Flags
    /\ \E Garbage \in GarbageChoices(IoBuffer) :
       \E rel \in {MmResetIoBuffer(IoBuffer, cacheVa, Garbage)} :
       \E env \in {EnvAfterRelease(Env, rel)} :
            /\ IoBuffer' = rel.b
            /\ physAlloc' = {}
            /\ lockCount' = [p \in Pages |-> 0]
            /\ cacheRef' = [e \in CacheEntries |-> BaseReference]
            /\ vaReserved' = env.vaReserved \cap CacheHeldVa(cacheVa)
            /\ DidWith("release", STATUS_SUCCESS, ReleaseCalls(rel))
    /\ owned' = {}
    /\ UNCHANGED <<memory, peer>>
    /\ UNCHANGED <<life, cacheVa>>

(***************************************************************************)
(* MmIoBufferAppendPage, MmSetIoBufferPageCacheEntry and the cursor.       *)
(***************************************************************************)
\* The test that lets a page join the last fragment.
AppendContiguous(Fragment, VirtualAddress, PhysicalAddress) ==
    /\ Fragment.PhysicalAddress + Fragment.Size = PhysicalAddress
    /\ \/ VirtualAddress = NULL /\ Fragment.VirtualAddress = NULL
       \/ /\ VirtualAddress # NULL
          /\ Fragment.VirtualAddress # NULL
          /\ Fragment.VirtualAddress + Fragment.Size = VirtualAddress

\* The routine's assertions.
AppendPagePrecondition(b, PageCacheEntry, PhysicalAddress) ==
    /\ IO_BUFFER_FLAG_EXTENDABLE \in b.Flags
    /\ PageCacheEntry = NULL \/ PhysicalAddress = INVALID_PHYSICAL_ADDRESS
    /\ PageCacheEntry = NULL \/ b.PceAllocated
    /\ b.FragmentCount < b.MaxFragmentCount
    /\ IS_ALIGNED(b.TotalSize, PageSize)
    /\ PageCacheEntry # NULL =>
          /\ b.TotalSize \div PageSize < b.PageCount
          /\ b.PageCacheEntries[b.TotalSize \div PageSize] = NULL
          /\ IO_BUFFER_FLAG_PAGE_CACHE_BACKED \in b.Flags

MmIoBufferAppendPage(b, PageCacheEntry, VirtualAddressIn, PhysicalAddressIn, CacheVa) ==
    LET FragmentIndex == IF b.FragmentCount # 0 THEN b.FragmentCount - 1
                         ELSE 0
        PhysicalAddress == IF PageCacheEntry # NULL
                           THEN IoGetPageCacheEntryPhysicalAddress(
                                    PageCacheEntry)
                           ELSE PhysicalAddressIn
        VirtualAddress == IF PageCacheEntry # NULL
                          THEN CacheVa[PageCacheEntry]
                          ELSE VirtualAddressIn
        Fragment == ReadFragment(b, FragmentIndex)
        b1 == IF AppendContiguous(Fragment, VirtualAddress, PhysicalAddress)
              THEN WriteFragment(b, FragmentIndex,
                                 [Fragment EXCEPT !.Size = @ + PageSize])
              ELSE [WriteFragment(
                        b,
                        IF b.FragmentCount # 0 THEN FragmentIndex + 1
                        ELSE FragmentIndex,
                        [PhysicalAddress |-> PhysicalAddress,
                         VirtualAddress |-> VirtualAddress,
                         Size |-> PageSize])
                       EXCEPT !.FragmentCount = @ + 1]
        PageIndex == b.TotalSize \div PageSize
        b2 == IF PageCacheEntry # NULL
              THEN [b1 EXCEPT !.PageCacheEntries[PageIndex] = PageCacheEntry]
              ELSE b1
    IN [b2 EXCEPT !.TotalSize = @ + PageSize]

AppendCacheEntry ==
    /\ life = "live"
    /\ \E PageCacheEntry \in {1, 2} :
         /\ AppendPagePrecondition(IoBuffer, PageCacheEntry,
                                   INVALID_PHYSICAL_ADDRESS)
         /\ IoBuffer' = MmIoBufferAppendPage(IoBuffer, PageCacheEntry, NULL,
                                             INVALID_PHYSICAL_ADDRESS,
                                             cacheVa)
         /\ cacheRef' = [cacheRef EXCEPT ![PageCacheEntry] = @ + 1]
    /\ Did("append", STATUS_SUCCESS)
    /\ UNCHANGED <<life, physAlloc, lockCount, cacheVa, vaReserved, owned, memory, peer>>

AppendPhysicalPage ==
    /\ life = "live"
    /\ \E PhysicalAddress \in {p * PageSize : p \in CallerPages},
          VirtualAddress \in {NULL} \cup {v * PageSize : v \in CallerVaPages} :
         /\ AppendPagePrecondition(IoBuffer, NULL, PhysicalAddress)
         /\ IoBuffer' = MmIoBufferAppendPage(IoBuffer, NULL, VirtualAddress,
                                             PhysicalAddress, cacheVa)
    /\ Did("append", STATUS_SUCCESS)
    /\ UNCHANGED <<life, physAlloc, lockCount, cacheRef, cacheVa, vaReserved,
                   owned, memory, peer>>

\* The lookup without the cursor added to the offset.
PhysicalAddressFromStart(b, IoBufferOffset) ==
    LET Hits == {i \in 0 .. b.FragmentCount - 1 :
                    /\ IoBufferOffset >= SumFragmentSizes(b, i)
                    /\ IoBufferOffset < SumFragmentSizes(b, i + 1)}
    IN IF Hits = {} THEN INVALID_PHYSICAL_ADDRESS
       ELSE LET i == CHOOSE h \in Hits : \A k \in Hits : h <= k
            IN ReadFragment(b, i).PhysicalAddress
                   + (IoBufferOffset - SumFragmentSizes(b, i))

\* IoBufferOffset here is the caller's offset, before the cursor is added.
MmGetIoBufferPhysicalAddress(b, IoBufferOffset) ==
    LET Offset == IoBufferOffset + b.CurrentOffset
        Hits == {i \in 0 .. b.FragmentCount - 1 :
                    /\ Offset >= SumFragmentSizes(b, i)
                    /\ Offset < SumFragmentSizes(b, i + 1)}
    IN IF Hits = {} THEN INVALID_PHYSICAL_ADDRESS
       ELSE LET i == CHOOSE h \in Hits : \A k \in Hits : h <= k
            IN ReadFragment(b, i).PhysicalAddress
                   + (Offset - SumFragmentSizes(b, i))

\* A caller asks for the physical address at an offset; nothing changes.
GetIoBufferPhysicalAddress ==
    /\ life = "live"
    /\ \E IoBufferOffset \in 0 .. IoBuffer.TotalSize + 1 :
          DidCall("lookup", STATUS_SUCCESS,
                  [IoBufferOffset |-> IoBufferOffset,
                   PhysicalAddress |->
                       MmGetIoBufferPhysicalAddress(IoBuffer, IoBufferOffset)],
                  NoBuffer)
    /\ UNCHANGED <<IoBuffer, life, physAlloc, lockCount, cacheRef, cacheVa,
                   vaReserved, owned, memory, peer>>

\* The routine's assertions; the physical address is looked up with the
\* offset that already includes the cursor.
SetPageCacheEntryPrecondition(b, IoBufferOffset, PageCacheEntry) ==
    LET Offset == IoBufferOffset + b.CurrentOffset
        PageIndex == Offset \div PageSize
    IN /\ IS_ALIGNED(Offset, PageSize)
       /\ IO_BUFFER_FLAG_USER_MODE \notin b.Flags
       /\ b.PceAllocated
       /\ PageIndex < b.PageCount
       /\ b.PageCacheEntries[PageIndex] = NULL
       /\ MmGetIoBufferPhysicalAddress(b, Offset)
              = IoGetPageCacheEntryPhysicalAddress(PageCacheEntry)

MmSetIoBufferPageCacheEntry(b, IoBufferOffset, PageCacheEntry) ==
    LET PageIndex == (IoBufferOffset + b.CurrentOffset) \div PageSize
    IN [b EXCEPT !.PageCacheEntries[PageIndex] = PageCacheEntry,
                 !.Flags = @ \cup {IO_BUFFER_FLAG_PAGE_CACHE_BACKED}]

SetPageCacheEntry ==
    /\ life = "live"
    /\ \E IoBufferOffset \in 0 .. IoBuffer.TotalSize,
          PageCacheEntry \in CacheEntries :
         /\ SetPageCacheEntryPrecondition(IoBuffer, IoBufferOffset,
                                          PageCacheEntry)
         /\ IoBuffer' = MmSetIoBufferPageCacheEntry(IoBuffer, IoBufferOffset,
                                                    PageCacheEntry)
         /\ cacheRef' = [cacheRef EXCEPT ![PageCacheEntry] = @ + 1]
    /\ Did("update", STATUS_SUCCESS)
    /\ UNCHANGED <<life, physAlloc, lockCount, cacheVa, vaReserved, owned, memory, peer>>

\* UINTN arithmetic wraps; the kernel's half of the address space starts at
\* KERNEL_VA_START.
UintnModulus == 32
Uintn(Value) == Value % UintnModulus

\* The largest 32-bit and 64-bit values; physical addresses are 64 bits wide.
MAX_ULONG == 7
MAX_ULONGLONG == UintnModulus - 1

MmIoBufferIncrementOffset(b, OffsetIncrement) ==
    [b EXCEPT !.CurrentOffset = Uintn(@ + OffsetIncrement)]

\* The decrement in unbounded arithmetic, which can go below zero.
DecrementOffsetUnbounded(b, OffsetDecrement) ==
    [b EXCEPT !.CurrentOffset = @ - OffsetDecrement]

MmIoBufferDecrementOffset(b, OffsetDecrement) ==
    [b EXCEPT !.CurrentOffset = Uintn(@ - OffsetDecrement)]

\* The assertion both cursor routines end with.
OffsetAssertion(b) == b.CurrentOffset <= b.TotalSize

IncrementOffset ==
    /\ life = "live"
    /\ \E OffsetIncrement \in 1 .. MaxBufferPages * PageSize :
         /\ OffsetAssertion(MmIoBufferIncrementOffset(IoBuffer,
                                                      OffsetIncrement))
         /\ IoBuffer' = MmIoBufferIncrementOffset(IoBuffer, OffsetIncrement)
    /\ Did("update", STATUS_SUCCESS)
    /\ UNCHANGED <<life, physAlloc, lockCount, cacheRef, cacheVa, vaReserved,
                   owned, memory, peer>>

DecrementOffset ==
    /\ life = "live"
    /\ \E OffsetDecrement \in 1 .. MaxBufferPages * PageSize :
         /\ OffsetAssertion(MmIoBufferDecrementOffset(IoBuffer,
                                                      OffsetDecrement))
         /\ IoBuffer' = MmIoBufferDecrementOffset(IoBuffer, OffsetDecrement)
    /\ Did("update", STATUS_SUCCESS)
    /\ UNCHANGED <<life, physAlloc, lockCount, cacheRef, cacheVa, vaReserved,
                   owned, memory, peer>>


(***************************************************************************)
(* MmpExtendIoBuffer.  Plan lists what MmpAllocatePhysicalPages returns on *)
(* each call: a physical address, or INVALID_PHYSICAL_ADDRESS.             *)
(***************************************************************************)
\* The fragment table's size taken for its free entries.
ExtendAvailableWholeTable(b) == b.MaxFragmentCount

\* The free entries of the fragment table, which bound the pages of one
\* extension.
ExtendAvailableFragments(b) == b.MaxFragmentCount - b.FragmentCount

\* Attach Bytes of physical memory at PhysicalAddress to the fragment at
\* FragmentIndex or to the one after it.
ExtendAttach(b, FragmentIndex, PhysicalAddress, Bytes) ==
    LET Fragment == ReadFragment(b, FragmentIndex)
    IN IF /\ Fragment.VirtualAddress = NULL
          /\ Fragment.PhysicalAddress + Fragment.Size = PhysicalAddress
       THEN [b |-> [WriteFragment(b, FragmentIndex,
                                  [Fragment EXCEPT !.Size = @ + Bytes])
                       EXCEPT !.TotalSize = @ + Bytes],
             FragmentIndex |-> FragmentIndex]
       ELSE LET Index == IF b.FragmentCount # 0 THEN FragmentIndex + 1
                         ELSE FragmentIndex
            IN [b |-> [WriteFragment(
                           b, Index,
                           [ReadFragment(b, Index) EXCEPT
                               !.PhysicalAddress = PhysicalAddress,
                               !.Size = Bytes])
                          EXCEPT !.FragmentCount = @ + 1,
                                 !.TotalSize = @ + Bytes],
                FragmentIndex |-> Index]

\* The flags a successful extension leaves.
ExtendFlags(Flags) ==
    (Flags \ {IO_BUFFER_FLAG_MAPPED}) \cup {IO_BUFFER_FLAG_MEMORY_OWNED}

RECURSIVE ExtendPageLoop(_, _, _, _, _)
ExtendPageLoop(b, FragmentIndex, PageIndex, PageCount, Plan) ==
    IF PageIndex >= PageCount
    THEN [b |-> [b EXCEPT !.Flags = ExtendFlags(@)],
          Status |-> STATUS_SUCCESS]
    ELSE IF Plan[PageIndex + 1] = INVALID_PHYSICAL_ADDRESS
    THEN [b |-> b, Status |-> STATUS_NO_MEMORY]
    ELSE LET r == ExtendAttach(b, FragmentIndex, Plan[PageIndex + 1],
                               PageSize)
         IN ExtendPageLoop(r.b, r.FragmentIndex, PageIndex + 1, PageCount,
                           Plan)

\* The whole pages in Size, which leaves a last partial page out.
ExtendPageCountRoundedDown(Size) == Size \div PageSize

ExtendPageCount(Size) == ALIGN_RANGE_UP(Size, PageSize) \div PageSize

MmpExtendIoBuffer(b, Size, PhysicallyContiguous, Plan) ==
    LET AvailableFragments == ExtendAvailableFragments(b)
        PageCount == ExtendPageCount(Size)
        FragmentIndex == IF b.FragmentCount # 0 THEN b.FragmentCount - 1
                         ELSE 0
    IN IF PageCount > AvailableFragments
       THEN [b |-> b, Status |-> STATUS_BUFFER_TOO_SMALL]
       ELSE IF PhysicallyContiguous
       THEN IF Plan[1] = INVALID_PHYSICAL_ADDRESS
            THEN [b |-> b, Status |-> STATUS_NO_MEMORY]
            ELSE [b |-> [ExtendAttach(b, FragmentIndex, Plan[1],
                                      PageCount * PageSize).b
                            EXCEPT !.Flags = ExtendFlags(@)],
                  Status |-> STATUS_SUCCESS]
       ELSE ExtendPageLoop(b, FragmentIndex, 0, PageCount, Plan)

\* What MmpAllocatePhysicalPages can return over Count calls for one page
\* each: distinct free pages, and nothing more once it has failed.
PagePlans(Count, FreePages) ==
    {Plan \in [1 .. Count -> {INVALID_PHYSICAL_ADDRESS}
                                 \cup {p * PageSize : p \in FreePages}] :
        /\ \A i, j \in 1 .. Count :
              (i < j /\ Plan[i] = INVALID_PHYSICAL_ADDRESS)
                  => Plan[j] = INVALID_PHYSICAL_ADDRESS
        /\ \A i, j \in 1 .. Count :
              (i # j /\ Plan[i] # INVALID_PHYSICAL_ADDRESS)
                  => Plan[i] # Plan[j]}

\* What one call for a run of Count pages can return.
RunPlans(Count, FreePages) ==
    {<<INVALID_PHYSICAL_ADDRESS>>}
    \cup {<<p * PageSize>> : p \in {q \in FreePages :
                \A k \in 0 .. Count - 1 : q + k \in FreePages}}

\* The pages the allocator handed out while the routine followed Plan.
PlanPages(Count, PhysicallyContiguous, Plan) ==
    IF PhysicallyContiguous
    THEN IF Plan[1] = INVALID_PHYSICAL_ADDRESS THEN {}
         ELSE {PageOf(Plan[1]) + k : k \in 0 .. Count - 1}
    ELSE {PageOf(Plan[i]) : i \in {j \in 1 .. Count :
                                      Plan[j] # INVALID_PHYSICAL_ADDRESS}}

\* The calls of MmpExtendIoBuffer that can be made on b: a size, a mode and
\* what the page allocator answers.
ExtendCalls(b, FreePages) ==
    {c \in [Size : 1 .. MaxBufferPages * PageSize,
            PhysicallyContiguous : BOOLEAN,
            Plan : UNION {PagePlans(n, FreePages) \cup RunPlans(n, FreePages)
                          \cup {<<INVALID_PHYSICAL_ADDRESS>>} :
                          n \in 1 .. MaxBufferPages}] :
        LET PageCount == ExtendPageCount(c.Size)
        IN c.Plan \in
              IF PageCount > ExtendAvailableFragments(b)
              THEN {<<INVALID_PHYSICAL_ADDRESS>>}
              ELSE IF c.PhysicallyContiguous
              THEN RunPlans(PageCount, FreePages)
              ELSE PagePlans(PageCount, FreePages)}

ExtendIoBuffer ==
    /\ life = "live"
    /\ IO_BUFFER_FLAG_EXTENDABLE \in IoBuffer.Flags
    /\ \E c \in ExtendCalls(IoBuffer, AllocPages \ physAlloc) :
         LET PageCount == ExtendPageCount(c.Size)
             TooSmall == PageCount > ExtendAvailableFragments(IoBuffer)
             r == MmpExtendIoBuffer(IoBuffer, c.Size, c.PhysicallyContiguous,
                                    c.Plan)
             Got == IF TooSmall THEN {}
                    ELSE PlanPages(PageCount, c.PhysicallyContiguous, c.Plan)
         IN /\ IoBuffer' = r.b
            /\ physAlloc' = physAlloc \cup Got
            /\ owned' = owned \cup Got
            /\ UNCHANGED <<memory, peer>>
            /\ Did("extend", r.Status)
    /\ UNCHANGED <<life, lockCount, cacheRef, cacheVa, vaReserved>>

(***************************************************************************)
(* MmMapIoBuffer, MmpMapIoBufferFragments and MmpIsIoBufferMapped.         *)
(***************************************************************************)
RECURSIVE IsMappedFrom(_, _, _, _)
IsMappedFrom(b, VirtuallyContiguous, FragmentIndex, VirtualAddress) ==
    IF FragmentIndex >= b.FragmentCount THEN TRUE
    ELSE LET Fragment == ReadFragment(b, FragmentIndex)
         IN IF \/ Fragment.VirtualAddress = NULL
               \/ /\ VirtuallyContiguous
                  /\ VirtualAddress # Fragment.VirtualAddress
            THEN FALSE
            ELSE IsMappedFrom(b, VirtuallyContiguous, FragmentIndex + 1,
                              VirtualAddress + Fragment.Size)

MmpIsIoBufferMapped(b, VirtuallyContiguous) ==
    IsMappedFrom(b, VirtuallyContiguous, 0, ReadFragment(b, 0).VirtualAddress)

\* The page cache's side of publishing a virtual address: the entry takes it
\* when it has none.
IoSetPageCacheEntryVirtualAddress(CacheVa, Entry, VirtualAddress) ==
    IF CacheVa[Entry] = NULL
    THEN [CacheVa EXCEPT ![Entry] = VirtualAddress]
    ELSE CacheVa

\* The per-page loop storing the address in the entry itself.
RECURSIVE PublishPagesStoring(_, _, _, _, _, _, _)
PublishPagesStoring(b, CacheVa, Garbage, PageIndex, Page, PageCount, VirtualAddress) ==
    IF Page >= PageCount THEN CacheVa
    ELSE LET PageCacheEntry == ReadPageCacheEntry(b, PageIndex + Page, Garbage)
             NewVa == IF PageCacheEntry # NULL
                      THEN [CacheVa EXCEPT ![PageCacheEntry] =
                               VirtualAddress + Page * PageSize]
                      ELSE CacheVa
         IN PublishPagesStoring(b, NewVa, Garbage, PageIndex, Page + 1,
                                PageCount, VirtualAddress)

\* The per-page loop's calls on the page cache, for the pages of one range.
RECURSIVE PublishPages(_, _, _, _, _, _, _)
PublishPages(b, CacheVa, Garbage, PageIndex, Page, PageCount, VirtualAddress) ==
    IF Page >= PageCount THEN CacheVa
    ELSE LET PageCacheEntry == ReadPageCacheEntry(b, PageIndex + Page, Garbage)
             NewVa == IF PageCacheEntry # NULL
                      THEN IoSetPageCacheEntryVirtualAddress(
                               CacheVa, PageCacheEntry,
                               VirtualAddress + Page * PageSize)
                      ELSE CacheVa
         IN PublishPages(b, NewVa, Garbage, PageIndex, Page + 1, PageCount,
                         VirtualAddress)

\* The loop over the fragments of a range with every fragment placed at the
\* start of the range.
RECURSIVE AssignVirtualAddressesAtRangeStart(_, _, _, _)
AssignVirtualAddressesAtRangeStart(b, FragmentIndex, FragmentEnd, VirtualAddress) ==
    IF FragmentIndex >= FragmentEnd THEN b
    ELSE LET Fragment == ReadFragment(b, FragmentIndex)
         IN AssignVirtualAddressesAtRangeStart(
                WriteFragment(b, FragmentIndex,
                              [Fragment EXCEPT
                                  !.VirtualAddress = VirtualAddress]),
                FragmentIndex + 1, FragmentEnd,
                VirtualAddress)

\* The fragment table after the range at VirtualAddress has been laid over
\* the fragments FragmentStart .. FragmentStart + FragmentCount - 1.
RECURSIVE AssignVirtualAddresses(_, _, _, _)
AssignVirtualAddresses(b, FragmentIndex, FragmentEnd, VirtualAddress) ==
    IF FragmentIndex >= FragmentEnd THEN b
    ELSE LET Fragment == ReadFragment(b, FragmentIndex)
         IN AssignVirtualAddresses(
                WriteFragment(b, FragmentIndex,
                              [Fragment EXCEPT
                                  !.VirtualAddress = VirtualAddress]),
                FragmentIndex + 1, FragmentEnd,
                VirtualAddress + Fragment.Size)

\* VirtualAddress is what MmpAllocateAddressRange returned, NULL when it
\* failed.
MmpMapIoBufferFragments(b, CacheVa, Garbage, FragmentStart, FragmentCount, VirtualAddress) ==
    LET Size == SumFragmentSizes(b, FragmentStart + FragmentCount)
                    - SumFragmentSizes(b, FragmentStart)
        CacheBacked == IO_BUFFER_FLAG_PAGE_CACHE_BACKED \in b.Flags
        PageIndex == SumFragmentSizes(b, FragmentStart) \div PageSize
    IN IF VirtualAddress = NULL
       THEN [b |-> b, CacheVa |-> CacheVa, Size |-> Size,
             Status |-> STATUS_INSUFFICIENT_RESOURCES]
       ELSE [b |-> AssignVirtualAddresses(b, FragmentStart,
                                          FragmentStart + FragmentCount,
                                          VirtualAddress),
             CacheVa |-> IF CacheBacked
                         THEN PublishPages(b, CacheVa, Garbage, PageIndex, 0,
                                           Size \div PageSize, VirtualAddress)
                         ELSE CacheVa,
             Size |-> Size,
             Status |-> STATUS_SUCCESS]

\* The virtual pages of a range.
RangePages(VirtualAddress, Size) ==
    {v \in VaPages : /\ VirtualAddress <= v * PageSize
                     /\ v * PageSize < VirtualAddress + Size}

\* One more call of MmpMapIoBufferFragments within MmMapIoBuffer: m carries
\* the buffer, the cache addresses, the calls made so far, the pages reserved
\* by this MmMapIoBuffer, and whether the allocator could have answered as
\* Plan says (the range it returns must be free).
MapCallResult(m, r, VirtualAddress, Plan, FreeVa) ==
    LET Wanted == RangePages(VirtualAddress, r.Size)
    IN [b |-> r.b, CacheVa |-> r.CacheVa, Calls |-> m.Calls + 1,
        Reserve |-> m.Reserve \cup
                       (IF VirtualAddress # NULL THEN Wanted ELSE {}),
        Possible |-> /\ m.Possible
                     /\ m.Calls < Len(Plan)
                     /\ VirtualAddress # NULL =>
                           /\ Cardinality(Wanted) * PageSize = r.Size
                           /\ Wanted \subseteq (FreeVa \ m.Reserve),
        Status |-> r.Status]

\* The address MmpAllocateAddressRange answers the next call with.
MapPlanAddress(m, Plan) ==
    IF m.Calls < Len(Plan) THEN Plan[m.Calls + 1] ELSE NULL

MapCall(m, Garbage, FragmentStart, FragmentCount, Plan, FreeVa) ==
    MapCallResult(m,
                  MmpMapIoBufferFragments(m.b, m.CacheVa, Garbage,
                                          FragmentStart, FragmentCount,
                                          MapPlanAddress(m, Plan)),
                  MapPlanAddress(m, Plan), Plan, FreeVa)

\* The scan of the non-contiguous path.
RECURSIVE MapUnmappedRuns(_, _, _, _, _, _, _)
MapUnmappedRuns(m, Garbage, FragmentIndex, MapRequired, MapFragmentStart, Plan, FreeVa) ==
    IF m.Status # STATUS_SUCCESS THEN m
    ELSE IF FragmentIndex >= m.b.FragmentCount
    THEN IF MapRequired
         THEN MapCall(m, Garbage, MapFragmentStart,
                      FragmentIndex - MapFragmentStart, Plan, FreeVa)
         ELSE m
    ELSE IF ReadFragment(m.b, FragmentIndex).VirtualAddress # NULL
    THEN IF ~MapRequired
         THEN MapUnmappedRuns(m, Garbage, FragmentIndex + 1, FALSE,
                              MapFragmentStart, Plan, FreeVa)
         ELSE MapUnmappedRuns(
                  MapCall(m, Garbage, MapFragmentStart,
                          FragmentIndex - MapFragmentStart, Plan, FreeVa),
                  Garbage, FragmentIndex + 1, FALSE, MapFragmentStart, Plan,
                  FreeVa)
    ELSE MapUnmappedRuns(m, Garbage, FragmentIndex + 1, TRUE,
                         IF MapRequired THEN MapFragmentStart
                         ELSE FragmentIndex,
                         Plan, FreeVa)

\* The flags a successful mapping sets at its end.
MapDoneFlags(Flags) ==
    Flags \cup {IO_BUFFER_FLAG_UNMAP_ON_FREE, IO_BUFFER_FLAG_MAPPED}

\* The early exits of MmMapIoBuffer: "flag" when the requested flag is set,
\* "fragments" when the fragments turn out to be mapped already, else "none".
MapFastPath(b, VirtuallyContiguous) ==
    LET Wanted == IF VirtuallyContiguous
                  THEN IO_BUFFER_FLAG_VIRTUALLY_CONTIGUOUS
                  ELSE IO_BUFFER_FLAG_MAPPED
    IN IF Wanted \in b.Flags THEN "flag"
       ELSE IF MmpIsIoBufferMapped(b, VirtuallyContiguous) THEN "fragments"
       ELSE "none"

\* The flag the second early exit sets.
MapFastPathFlags(Flags, VirtuallyContiguous) ==
    Flags \cup {IF VirtuallyContiguous
                THEN IO_BUFFER_FLAG_VIRTUALLY_CONTIGUOUS
                ELSE IO_BUFFER_FLAG_MAPPED}

\* Plan lists what MmpAllocateAddressRange returns on each call; VaInUse is
\* the set of kernel virtual pages reserved when the routine starts.
MapStart(b, CacheVa) ==
    [b |-> b, CacheVa |-> CacheVa, Calls |-> 0, Reserve |-> {},
     Possible |-> TRUE, Status |-> STATUS_SUCCESS]

\* What the routine leaves when it has mapped: m is the state after the
\* calls of MmpMapIoBufferFragments, Ranges what was unmapped before them.
MapResult(m, DoneFlags, Ranges, Plan) ==
    [b |-> IF m.Status = STATUS_SUCCESS
           THEN [m.b EXCEPT !.Flags = MapDoneFlags(@ \cup DoneFlags)]
           ELSE m.b,
     CacheVa |-> m.CacheVa, Ranges |-> Ranges, Reserve |-> m.Reserve,
     Possible |-> m.Possible /\ m.Calls = Len(Plan),
     Status |-> m.Status]

\* The contiguous path after the unmapping um of what was mapped.
MapContiguous(um, CacheVa, Garbage, Plan, VaInUse) ==
    MapResult(MapCall(MapStart(um.b, CacheVa), Garbage, 0,
                      um.b.FragmentCount, Plan,
                      VaPool \ {v \in VaInUse :
                                   RangeCover(um.Ranges, v) = 0}),
              {IO_BUFFER_FLAG_VIRTUALLY_CONTIGUOUS}, um.Ranges, Plan)

MmMapIoBuffer(b, CacheVa, Garbage, VirtuallyContiguous, Plan, VaInUse) ==
    IF MapFastPath(b, VirtuallyContiguous) = "flag"
    THEN [b |-> b, CacheVa |-> CacheVa, Ranges |-> <<>>, Reserve |-> {},
          Possible |-> Len(Plan) = 0, Status |-> STATUS_SUCCESS]
    ELSE IF MapFastPath(b, VirtuallyContiguous) = "fragments"
    THEN [b |-> [b EXCEPT !.Flags =
                     MapFastPathFlags(@, VirtuallyContiguous)],
          CacheVa |-> CacheVa, Ranges |-> <<>>, Reserve |-> {},
          Possible |-> Len(Plan) = 0, Status |-> STATUS_SUCCESS]
    ELSE IF VirtuallyContiguous
    THEN MapContiguous(IF IO_BUFFER_FLAG_MAPPED \in b.Flags
                       THEN MmpUnmapIoBuffer(b, CacheVa, Garbage)
                       ELSE [b |-> b, Ranges |-> <<>>],
                       CacheVa, Garbage, Plan, VaInUse)
    ELSE MapResult(MapUnmappedRuns(MapStart(b, CacheVa), Garbage, 0, FALSE,
                                   0, Plan, VaPool \ VaInUse),
                   {}, <<>>, Plan)


\* What the routine asserts of its caller: a fragment to map, and, when a
\* mapping has to be made, a kernel buffer of whole pages.
MapPrecondition(b, VirtuallyContiguous) ==
    /\ b.FragmentCount >= 1
    /\ MapFastPath(b, VirtuallyContiguous) = "none" =>
          /\ IO_BUFFER_FLAG_USER_MODE \notin b.Flags
          /\ \A i \in 0 .. b.FragmentCount - 1 :
                /\ IS_ALIGNED(ReadFragment(b, i).Size, PageSize)
                /\ IS_ALIGNED(ReadFragment(b, i).PhysicalAddress, PageSize)

\* The answers MmpAllocateAddressRange may give over the calls of one
\* MmMapIoBuffer.
MaxMapCalls == (MaxBufferPages + 1) \div 2
VaAnswers == {NULL} \cup {v * PageSize : v \in VaPool}
VaPlans == UNION {[1 .. n -> VaAnswers] : n \in 0 .. MaxMapCalls}

\* The same for a buffer whose table has room for MaxTablePages fragments.
MaxTableMapCalls == (MaxTablePages + 1) \div 2
VaTablePlans == UNION {[1 .. n -> VaAnswers] : n \in 0 .. MaxTableMapCalls}

MapIoBufferOf(Plans) ==
    /\ life = "live"
    /\ \E VirtuallyContiguous \in BOOLEAN, Plan \in Plans,
          Garbage \in GarbageChoices(IoBuffer) :
         /\ MapPrecondition(IoBuffer, VirtuallyContiguous)
         /\ \E r \in {MmMapIoBuffer(IoBuffer, cacheVa, Garbage,
                                    VirtuallyContiguous, Plan, vaReserved)} :
               /\ r.Possible
               /\ IoBuffer' = r.b
               /\ cacheVa' = r.CacheVa
               /\ vaReserved' = {v \in vaReserved :
                                    RangeCover(r.Ranges, v) = 0}
                                \cup r.Reserve
               /\ last' = [Op |-> "map", Status |-> r.Status,
                           Calls |-> UnmapCalls(r.Ranges),
                           Args |-> [VirtuallyContiguous |->
                                        VirtuallyContiguous,
                                     Path |-> MapFastPath(
                                                  IoBuffer,
                                                  VirtuallyContiguous)],
                           Out |-> NoBuffer]
    /\ UNCHANGED <<life, physAlloc, lockCount, cacheRef, owned, memory, peer>>

MapIoBuffer == MapIoBufferOf(VaPlans)

MapTableIoBuffer == MapIoBufferOf(VaTablePlans)

(***************************************************************************)
(* MmInitializeIoBuffer: a descriptor in the caller's storage, with the    *)
(* one embedded fragment.  Translated is what MmpVirtualToPhysical answers *)
(* for VirtualAddress.                                                     *)
(***************************************************************************)
InitializePrecondition(VirtualAddress, PhysicalAddress, SizeInBytes) ==
    /\ ALIGN_RANGE_UP(VirtualAddress + SizeInBytes, PageSize)
          - ALIGN_RANGE_DOWN(VirtualAddress, PageSize) <= PageSize
    /\ (VirtualAddress # NULL \/ PhysicalAddress # INVALID_PHYSICAL_ADDRESS)
          => SizeInBytes # 0

MmInitializeIoBuffer(VirtualAddress, PhysicalAddress, SizeInBytes, CacheBacked, MemoryLocked, Translated) ==
    LET Zeroed == ZeroedIoBuffer(1, IF CacheBacked THEN 1 ELSE 0, CacheBacked)
        Flags ==
            {IO_BUFFER_FLAG_STRUCTURE_NOT_OWNED}
            \cup (IF CacheBacked
                  THEN {IO_BUFFER_FLAG_PAGE_CACHE_BACKED,
                        IO_BUFFER_FLAG_EXTENDABLE,
                        IO_BUFFER_FLAG_MEMORY_LOCKED}
                  ELSE {})
            \cup (IF MemoryLocked THEN {IO_BUFFER_FLAG_MEMORY_LOCKED} ELSE {})
            \cup (IF VirtualAddress # NULL
                  THEN {IO_BUFFER_FLAG_MAPPED,
                        IO_BUFFER_FLAG_VIRTUALLY_CONTIGUOUS}
                  ELSE {})
        Physical == IF /\ VirtualAddress # NULL
                       /\ PhysicalAddress = INVALID_PHYSICAL_ADDRESS
                    THEN Translated
                    ELSE PhysicalAddress
        b == [Zeroed EXCEPT !.Flags = Flags]
    IN IF Physical # INVALID_PHYSICAL_ADDRESS
       THEN [WriteFragment(b, 0, [VirtualAddress |-> VirtualAddress,
                                  PhysicalAddress |-> Physical,
                                  Size |-> SizeInBytes])
                EXCEPT !.TotalSize = SizeInBytes, !.FragmentCount = 1]
       ELSE b

InitializeIoBuffer ==
    /\ life = "none"
    /\ \E VirtualAddress \in {NULL} \cup {v * PageSize + k :
                                  v \in CallerVaPages, k \in 0 .. PageSize - 1},
          Page \in {0} \cup CallerPages,
          SizeInBytes \in 0 .. PageSize,
          CacheBacked \in BOOLEAN, MemoryLocked \in BOOLEAN :
         \E PhysicalAddress \in
                 {IF Page = 0 THEN INVALID_PHYSICAL_ADDRESS
                  ELSE Page * PageSize + REMAINDER(VirtualAddress, PageSize)} :
            /\ InitializePrecondition(VirtualAddress, PhysicalAddress,
                                      SizeInBytes)
            /\ \E Translated \in {p * PageSize
                                      + REMAINDER(VirtualAddress, PageSize) :
                                    p \in CallerPages} :
                  IoBuffer' = MmInitializeIoBuffer(
                                  VirtualAddress, PhysicalAddress, SizeInBytes,
                                  CacheBacked, MemoryLocked, Translated)
    /\ life' = "live"
    /\ Did("construct", STATUS_SUCCESS)
    /\ UNCHANGED <<physAlloc, lockCount, cacheRef, cacheVa, vaReserved,
                   owned, memory, peer>>

\* A kernel virtual page at which another descriptor maps a page.
SharingVaPages == {13}

\* Another descriptor that holds one of this descriptor's page cache entries
\* reaches the same call in its own MmpMapIoBufferFragments.
MapSharingIoBuffer ==
    /\ life = "live"
    /\ \E i \in DOMAIN IoBuffer.PageCacheEntries, v \in SharingVaPages :
          /\ IoBuffer.PageCacheEntries[i] # NULL
          /\ cacheVa' = IoSetPageCacheEntryVirtualAddress(
                            cacheVa, IoBuffer.PageCacheEntries[i],
                            v * PageSize)
    /\ Did("publish", STATUS_SUCCESS)
    /\ UNCHANGED <<IoBuffer, life, physAlloc, lockCount, cacheRef,
                   vaReserved, owned, memory, peer>>

(***************************************************************************)
(* MmAllocateNonPagedIoBuffer.                                             *)
(***************************************************************************)
NonPagedFlags ==
    {IO_BUFFER_FLAG_NON_PAGED, IO_BUFFER_FLAG_UNMAP_ON_FREE,
     IO_BUFFER_FLAG_MEMORY_OWNED, IO_BUFFER_FLAG_MEMORY_LOCKED,
     IO_BUFFER_FLAG_MAPPED, IO_BUFFER_FLAG_VIRTUALLY_CONTIGUOUS}

NonPagedAlignedSize(Size, Alignment) ==
    ALIGN_RANGE_UP(Size, IF Alignment = 0 THEN PageSize
                         ELSE ALIGN_RANGE_UP(Alignment, PageSize))

\* The loop over the pages giving every page a fragment of its own.
RECURSIVE NonPagedPageLoopUnmerged(_, _, _, _, _, _)
NonPagedPageLoopUnmerged(b, FragmentIndex, PageIndex, PageCount, CurrentAddress, Plan) ==
    IF PageIndex >= PageCount THEN b
    ELSE NonPagedPageLoopUnmerged(
             [WriteFragment(b, FragmentIndex,
                            [VirtualAddress |-> CurrentAddress,
                             PhysicalAddress |-> Plan[PageIndex + 1],
                             Size |-> PageSize])
                 EXCEPT !.FragmentCount = @ + 1],
             FragmentIndex + 1, PageIndex + 1, PageCount,
             CurrentAddress + PageSize, Plan)

\* The loop over the pages of the mapped range; Plan[i] is what
\* MmpVirtualToPhysical returns for page i.
RECURSIVE NonPagedPageLoop(_, _, _, _, _, _)
NonPagedPageLoop(b, FragmentIndex, PageIndex, PageCount, CurrentAddress, Plan) ==
    IF PageIndex >= PageCount THEN b
    ELSE LET PhysicalAddress == Plan[PageIndex + 1]
             Previous == ReadFragment(b, FragmentIndex - 1)
         IN IF /\ b.FragmentCount # 0
               /\ Previous.PhysicalAddress + Previous.Size = PhysicalAddress
            THEN NonPagedPageLoop(
                     WriteFragment(b, FragmentIndex - 1,
                                   [Previous EXCEPT !.Size = @ + PageSize]),
                     FragmentIndex, PageIndex + 1, PageCount,
                     CurrentAddress + PageSize, Plan)
            ELSE NonPagedPageLoop(
                     [WriteFragment(b, FragmentIndex,
                                    [VirtualAddress |-> CurrentAddress,
                                     PhysicalAddress |-> PhysicalAddress,
                                     Size |-> PageSize])
                         EXCEPT !.FragmentCount = @ + 1],
                     FragmentIndex + 1, PageIndex + 1, PageCount,
                     CurrentAddress + PageSize, Plan)

\* VirtualAddress is the range MmpAllocateAddressRange returned and Plan the
\* pages MmpMapRange backed it with.
MmAllocateNonPagedIoBuffer(Size, Alignment, PhysicallyContiguous, VirtualAddress, Plan) ==
    LET AlignedSize == NonPagedAlignedSize(Size, Alignment)
        PageCount == AlignedSize \div PageSize
        FragmentCount == IF PhysicallyContiguous THEN 1 ELSE PageCount
        b == [ZeroedIoBuffer(FragmentCount, PageCount, TRUE)
                 EXCEPT !.TotalSize = AlignedSize]
        Filled == IF PhysicallyContiguous
                  THEN [WriteFragment(b, 0,
                                      [VirtualAddress |-> VirtualAddress,
                                       PhysicalAddress |-> Plan[1],
                                       Size |-> AlignedSize])
                           EXCEPT !.FragmentCount = 1]
                  ELSE NonPagedPageLoop(b, 0, 0, PageCount, VirtualAddress,
                                        Plan)
    IN [Filled EXCEPT !.Flags = NonPagedFlags]

\* The free ranges of Count virtual pages.
FreeVaRanges(Count, VaInUse) ==
    {v * PageSize : v \in {w \in VaPool :
        \A k \in 0 .. Count - 1 : w + k \in VaPool \ VaInUse}}

AllocateNonPaged ==
    /\ life = "none"
    /\ \E Size \in 1 .. MaxBufferPages * PageSize, Alignment \in {0, 1},
          PhysicallyContiguous \in BOOLEAN :
         LET PageCount == NonPagedAlignedSize(Size, Alignment) \div PageSize
             FreePages == AllocPages \ physAlloc
         IN \/ \E VirtualAddress \in FreeVaRanges(PageCount, vaReserved),
                  Plan \in {q \in IF PhysicallyContiguous
                                  THEN RunPlans(PageCount, FreePages)
                                  ELSE PagePlans(PageCount, FreePages) :
                               \A i \in DOMAIN q :
                                  q[i] # INVALID_PHYSICAL_ADDRESS} :
                 LET Got == PlanPages(PageCount, PhysicallyContiguous, Plan)
                 IN /\ IoBuffer' = MmAllocateNonPagedIoBuffer(
                                       Size, Alignment, PhysicallyContiguous,
                                       VirtualAddress, Plan)
                    /\ life' = "live"
                    /\ physAlloc' = physAlloc \cup Got
                    /\ owned' = Got
                    /\ UNCHANGED <<memory, peer>>
                    /\ vaReserved' = vaReserved \cup
                          RangePages(VirtualAddress, PageCount * PageSize)
                    /\ DidCall("construct", STATUS_SUCCESS,
                               [Size |-> Size, Alignment |-> Alignment,
                                PhysicallyContiguous |-> PhysicallyContiguous,
                                VirtualAddress |-> VirtualAddress,
                                Plan |-> Plan],
                               NoBuffer)
            \/ /\ Did("construct", STATUS_INSUFFICIENT_RESOURCES)
               /\ UNCHANGED <<IoBuffer, life, physAlloc, owned, vaReserved, memory, peer>>
    /\ UNCHANGED <<lockCount, cacheRef, cacheVa>>

(***************************************************************************)
(* MmCreateIoBuffer.  Outcomes[i] is what the memory manager answers for   *)
(* page i of the caller's range: "cache" (MmpPageIn locked a page that has *)
(* the cache entry Entry), "locked" (MmpPageIn locked the page Page, which *)
(* has no cache entry), "direct" (no image section; MmpVirtualToPhysical   *)
(* answers Page), "fail" (MmpPageIn failed) or "invalid" (no section and   *)
(* no page).  Outcomes[i].Retries is the number of times MmpPageIn answers *)
(* STATUS_TRY_AGAIN for page i before it gives that answer.                *)
(***************************************************************************)
CreatePageCount(Buffer, SizeInBytes) ==
    (ALIGN_RANGE_UP(Buffer + SizeInBytes, PageSize)
        - ALIGN_RANGE_DOWN(Buffer, PageSize)) \div PageSize

\* The flags set before the pages are walked.
CreateFlags(NonPaged, KernelMode) ==
    (IF NonPaged THEN {IO_BUFFER_FLAG_NON_PAGED} ELSE {})
    \cup (IF KernelMode THEN {} ELSE {IO_BUFFER_FLAG_USER_MODE})
    \cup {IO_BUFFER_FLAG_MAPPED, IO_BUFFER_FLAG_VIRTUALLY_CONTIGUOUS}

\* The physical address the loop works with for one page.
CreatePhysicalAddress(Outcome, CurrentAddress) ==
    IF Outcome.Kind = "cache"
    THEN IoGetPageCacheEntryPhysicalAddress(Outcome.Entry)
    ELSE IF Outcome.Kind = "locked" THEN Outcome.Page * PageSize
    ELSE Outcome.Page * PageSize + REMAINDER(CurrentAddress, PageSize)

\* The test that sends the loop round again for the same page.
CreateTryAgainIgnored(Status) == FALSE

CreateTryAgain(Status) == Status = STATUS_TRY_AGAIN

\* The end of the walk: the locked flag, when any byte was locked.
CreateLockedFlag(b, BytesLocked) ==
    IF BytesLocked # 0
    THEN [b EXCEPT !.Flags = @ \cup {IO_BUFFER_FLAG_MEMORY_LOCKED}]
    ELSE b

RECURSIVE CreateLockLoop(_, _, _, _, _, _, _)
CreateLockLoop(b, CurrentAddress, EndAddress, FragmentIndex, PageIndex, BytesLocked, Outcomes) ==
    IF CurrentAddress >= EndAddress
    THEN [b |-> CreateLockedFlag(b, BytesLocked), Status |-> STATUS_SUCCESS]
    ELSE LET Outcome == Outcomes[PageIndex + 1]
         IN IF Outcome.Retries > 0
            THEN IF CreateTryAgain(STATUS_TRY_AGAIN)
                 THEN CreateLockLoop(
                          b, CurrentAddress, EndAddress, FragmentIndex,
                          PageIndex, BytesLocked,
                          [Outcomes EXCEPT ![PageIndex + 1].Retries = @ - 1])
                 ELSE [b |-> CreateLockedFlag(b, BytesLocked),
                       Status |-> STATUS_TRY_AGAIN]
            ELSE IF Outcome.Kind = "fail"
            THEN [b |-> CreateLockedFlag(b, BytesLocked),
                  Status |-> STATUS_INSUFFICIENT_RESOURCES]
            ELSE IF Outcome.Kind = "invalid"
            THEN [b |-> CreateLockedFlag(b, BytesLocked),
                  Status |-> STATUS_INVALID_PARAMETER]
            ELSE
            LET PhysicalAddress ==
                    CreatePhysicalAddress(Outcome, CurrentAddress)
                b1 == IF Outcome.Kind = "cache"
                      THEN [b EXCEPT
                               !.PageCacheEntries[PageIndex] = Outcome.Entry,
                               !.Flags = @ \cup
                                   {IO_BUFFER_FLAG_PAGE_CACHE_BACKED}]
                      ELSE b
                Aligned == ALIGN_RANGE_UP(CurrentAddress + 1, PageSize)
                NextAddress == IF Aligned > EndAddress THEN EndAddress
                               ELSE Aligned
                FragmentSize == NextAddress - CurrentAddress
                Previous == ReadFragment(b1, FragmentIndex - 1)
            IN IF /\ b1.FragmentCount # 0
                  /\ Previous.PhysicalAddress + Previous.Size
                        = PhysicalAddress
               THEN CreateLockLoop(
                        WriteFragment(b1, FragmentIndex - 1,
                                      [Previous EXCEPT
                                          !.Size = @ + FragmentSize]),
                        CurrentAddress + FragmentSize, EndAddress,
                        FragmentIndex, PageIndex + 1,
                        BytesLocked + FragmentSize, Outcomes)
               ELSE CreateLockLoop(
                        [WriteFragment(b1, FragmentIndex,
                                       [VirtualAddress |-> CurrentAddress,
                                        PhysicalAddress |-> PhysicalAddress,
                                        Size |-> FragmentSize])
                            EXCEPT !.FragmentCount = @ + 1],
                        CurrentAddress + FragmentSize, EndAddress,
                        FragmentIndex + 1, PageIndex + 1,
                        BytesLocked + FragmentSize, Outcomes)

\* The descriptor as the routine leaves it and its status; when the status is
\* not success the routine goes on to free the descriptor.
MmCreateIoBuffer(Buffer, SizeInBytes, LockMemory, NonPaged, KernelMode, Outcomes) ==
    LET PageCount == CreatePageCount(Buffer, SizeInBytes)
        Zeroed == IF LockMemory THEN ZeroedIoBuffer(PageCount, PageCount, TRUE)
                  ELSE ZeroedIoBuffer(1, 0, FALSE)
    IN IF ~KernelMode /\ Buffer + SizeInBytes > KERNEL_VA_START
       THEN [b |-> [ZeroedIoBuffer(0, 0, FALSE) EXCEPT
                       !.Flags = IF NonPaged THEN {IO_BUFFER_FLAG_NON_PAGED}
                                 ELSE {}],
             Status |-> STATUS_ACCESS_VIOLATION]
       ELSE LET b == [Zeroed EXCEPT
                         !.TotalSize = SizeInBytes,
                         !.Flags = CreateFlags(NonPaged, KernelMode)]
            IN IF ~LockMemory
               THEN [b |-> [WriteFragment(
                                b, 0,
                                [VirtualAddress |-> Buffer,
                                 PhysicalAddress |-> INVALID_PHYSICAL_ADDRESS,
                                 Size |-> SizeInBytes])
                               EXCEPT !.FragmentCount = 1],
                     Status |-> STATUS_SUCCESS]
               ELSE CreateLockLoop(b, Buffer, Buffer + SizeInBytes, 0, 0, 0,
                                   Outcomes)

\* The answers the memory manager can give for the pages of one range: each
\* page is a different one, and nothing is asked once an answer failed.
UserOutcomes ==
    {[Kind |-> "cache", Entry |-> e, Page |-> PageCacheEntryPage(e),
      Retries |-> n] : e \in {1, 2}, n \in 0 .. MaxRetries}
    \cup {[Kind |-> "locked", Entry |-> NULL, Page |-> p, Retries |-> n] :
             p \in PagerPages, n \in 0 .. MaxRetries}
    \cup {[Kind |-> "fail", Entry |-> NULL, Page |-> 0, Retries |-> n] :
             n \in 0 .. MaxRetries}

KernelOutcomes ==
    {[Kind |-> "direct", Entry |-> NULL, Page |-> p, Retries |-> 0] :
        p \in CallerPages}
    \cup {[Kind |-> "invalid", Entry |-> NULL, Page |-> 0, Retries |-> 0]}

Failed(Outcome) == Outcome.Kind \in {"fail", "invalid"}

CreateOutcomes(PageCount, KernelMode) ==
    {o \in [1 .. PageCount ->
               IF KernelMode THEN KernelOutcomes ELSE UserOutcomes] :
        /\ \A i, j \in 1 .. PageCount :
              (i < j /\ Failed(o[i])) => o[j] = o[i]
        /\ \A i, j \in 1 .. PageCount :
              (i # j /\ ~Failed(o[i])) => o[i].Page # o[j].Page}

\* The references and locks the answers came with.
EnvAfterPageIn(env, Outcomes) ==
    [env EXCEPT
        !.cacheRef = [e \in CacheEntries |->
            @[e] + Cardinality({i \in DOMAIN Outcomes :
                                   /\ Outcomes[i].Kind = "cache"
                                   /\ Outcomes[i].Entry = e})],
        !.lockCount = [p \in Pages |->
            @[p] + Cardinality({i \in DOMAIN Outcomes :
                                   /\ Outcomes[i].Kind = "locked"
                                   /\ Outcomes[i].Page = p})]]

\* Whether the pager answered STATUS_TRY_AGAIN for a page the loop asked for.
CreateRetried(Outcomes) ==
    \E i \in DOMAIN Outcomes :
        /\ Outcomes[i].Retries > 0
        /\ \A j \in 1 .. i - 1 : ~Failed(Outcomes[j])

CreateArgs(Outcomes) == [Retried |-> CreateRetried(Outcomes)]

\* The ranges a caller passes: user ranges below KERNEL_VA_START (or
\* reaching past it), kernel ranges within the caller's page.
CreateRanges(KernelMode) ==
    {r \in (IF KernelMode
            THEN {v * PageSize + k : v \in CallerVaPages, k \in 0 .. PageSize - 1}
            ELSE {PageSize, PageSize + 1, KERNEL_VA_START - 1})
           \X (1 .. MaxBufferPages * PageSize) :
        /\ CreatePageCount(r[1], r[2]) <= MaxBufferPages
        /\ KernelMode =>
              \A a \in r[1] .. r[1] + r[2] - 1 : PageOf(a) \in CallerVaPages}

CreateIoBuffer ==
    /\ life = "none"
    /\ \E KernelMode \in BOOLEAN, LockMemory \in BOOLEAN,
          NonPaged \in BOOLEAN :
       \E Range \in CreateRanges(KernelMode) :
       \E Outcomes \in IF LockMemory /\ (KernelMode \/
                             Range[1] + Range[2] <= KERNEL_VA_START)
                       THEN CreateOutcomes(
                                CreatePageCount(Range[1], Range[2]),
                                KernelMode)
                       ELSE {<<>>} :
       \E r \in {MmCreateIoBuffer(Range[1], Range[2], LockMemory, NonPaged,
                                   KernelMode, Outcomes)} :
       \E env \in {EnvAfterPageIn(Env, Outcomes)} :
            IF r.Status = STATUS_SUCCESS
            THEN /\ IoBuffer' = r.b
                 /\ life' = "live"
                 /\ cacheRef' = env.cacheRef
                 /\ lockCount' = env.lockCount
                 /\ DidCall("construct", STATUS_SUCCESS,
                            CreateArgs(Outcomes), NoBuffer)
                 /\ UNCHANGED <<physAlloc, vaReserved>>
            ELSE \E Garbage \in GarbageChoices(r.b) :
                 \E rel \in {MmFreeIoBuffer(r.b, cacheVa, Garbage)} :
                 \E after \in {EnvAfterRelease(env, rel)} :
                       /\ IoBuffer' = NoBuffer
                       /\ life' = "freed"
                       /\ physAlloc' = after.physAlloc
                       /\ lockCount' = after.lockCount
                       /\ cacheRef' = after.cacheRef
                       /\ vaReserved' = after.vaReserved
                       /\ last' = [Op |-> "construct", Status |-> r.Status,
                                   Calls |-> ReleaseCalls(rel),
                                   Args |-> CreateArgs(Outcomes),
                                   Out |-> NoBuffer]
    /\ UNCHANGED <<cacheVa, owned, memory, peer>>

(***************************************************************************)
(* MmCreateIoBufferFromVector: a user mode descriptor with one fragment    *)
(* for each I/O vector, adjacent vectors coalesced.                        *)
(***************************************************************************)
MAX_IO_VECTOR_COUNT == MaxBufferPages

\* The vectors up to this count are copied to the routine's stack.
LOCAL_IO_VECTOR_COUNT == 2

\* The validation applied only to the vectors that have a length.
VectorAddressViolationOfData(Address, Size) ==
    /\ Size # 0
    /\ \/ Address >= KERNEL_VA_START
       \/ Uintn(Address + Size) > KERNEL_VA_START
       \/ Uintn(Address + Size) < Address

\* The validation of one vector's range.
VectorAddressViolation(Address, Size) ==
    \/ Address >= KERNEL_VA_START
    \/ Uintn(Address + Size) > KERNEL_VA_START
    \/ Uintn(Address + Size) < Address

\* The running total the loop keeps, a UINTN.
VectorTotal(TotalSize, Length) == Uintn(TotalSize + Length)

RECURSIVE VectorLoop(_, _, _, _, _)
VectorLoop(b, IoVector, VectorIndex, FragmentIndex, TotalSize) ==
    IF VectorIndex >= Len(IoVector)
    THEN [b |-> [b EXCEPT !.TotalSize = TotalSize,
                          !.FragmentCount = FragmentIndex],
          Status |-> STATUS_SUCCESS]
    ELSE LET Address == IoVector[VectorIndex + 1].Data
             Size == IoVector[VectorIndex + 1].Length
             Previous == ReadFragment(b, FragmentIndex - 1)
         IN IF VectorAddressViolation(Address, Size)
            THEN [b |-> b, Status |-> STATUS_ACCESS_VIOLATION]
            ELSE IF Size = 0
            THEN VectorLoop(b, IoVector, VectorIndex + 1, FragmentIndex,
                            TotalSize)
            ELSE IF /\ FragmentIndex # 0
                    /\ Previous.VirtualAddress + Previous.Size = Address
            THEN VectorLoop(
                     WriteFragment(b, FragmentIndex - 1,
                                   [Previous EXCEPT
                                       !.Size = Uintn(@ + Size)]),
                     IoVector, VectorIndex + 1, FragmentIndex,
                     VectorTotal(TotalSize, Size))
            ELSE VectorLoop(
                     WriteFragment(b, FragmentIndex,
                                   [EmptyFragment EXCEPT
                                       !.VirtualAddress = Address,
                                       !.Size = Size]),
                     IoVector, VectorIndex + 1, FragmentIndex + 1,
                     VectorTotal(TotalSize, Size))

\* The descriptor as the routine leaves it and its status; when the status is
\* not success and a descriptor was allocated, the routine goes on to free it.
MmCreateIoBufferFromVector(IoVector) ==
    IF Len(IoVector) > MAX_IO_VECTOR_COUNT \/ Len(IoVector) = 0
    THEN [b |-> NoBuffer, Status |-> STATUS_INVALID_PARAMETER]
    ELSE VectorLoop(
             [ZeroedIoBuffer(Len(IoVector), 0, FALSE) EXCEPT
                 !.Flags = {IO_BUFFER_FLAG_USER_MODE, IO_BUFFER_FLAG_MAPPED}],
             IoVector, 0, 0, 0)

\* What the pool and the copy from user mode answer in one call: whether the
\* allocation of the vector's copy, the copy itself and the allocation of the
\* descriptor succeed.
VectorPoolAnswers == [Vector : BOOLEAN, Copy : BOOLEAN, Buffer : BOOLEAN]

\* The whole routine: the result of the loop, and how many pool allocations
\* it made and how many of them it freed before it returned.
CreateFromVector(IoVector, VectorInKernelMode, Pool) ==
    LET Counted == MmCreateIoBufferFromVector(IoVector)
        Copied == ~VectorInKernelMode
        Allocates == Copied /\ Len(IoVector) >= LOCAL_IO_VECTOR_COUNT
        Vector == IF Allocates THEN 1 ELSE 0
    IN IF Counted.Status = STATUS_INVALID_PARAMETER
       THEN [b |-> NoBuffer, Status |-> STATUS_INVALID_PARAMETER,
             Allocated |-> 0, Freed |-> 0]
       ELSE IF Allocates /\ ~Pool.Vector
       THEN [b |-> NoBuffer, Status |-> STATUS_INSUFFICIENT_RESOURCES,
             Allocated |-> 0, Freed |-> 0]
       ELSE IF Copied /\ ~Pool.Copy
       THEN [b |-> NoBuffer, Status |-> STATUS_ACCESS_VIOLATION,
             Allocated |-> Vector, Freed |-> Vector]
       ELSE IF ~Pool.Buffer
       THEN [b |-> NoBuffer, Status |-> STATUS_INSUFFICIENT_RESOURCES,
             Allocated |-> Vector, Freed |-> Vector]
       ELSE [b |-> Counted.b, Status |-> Counted.Status,
             Allocated |-> Vector + 1,
             Freed |-> Vector + (IF Counted.Status = STATUS_SUCCESS THEN 0
                                 ELSE 1)]

\* The vectors a caller hands in: any address and length, among them the
\* largest ranges below the kernel's half and ranges that wrap.
IoVectors ==
    [Data : {0, PageSize, KERNEL_VA_START},
     Length : {0, PageSize, KERNEL_VA_START, UintnModulus - PageSize}]

RECURSIVE VectorsOfLength(_)
VectorsOfLength(Count) ==
    IF Count = 0 THEN {<<>>}
    ELSE {Append(v, x) : v \in VectorsOfLength(Count - 1), x \in IoVectors}

CreateIoBufferFromVector ==
    /\ life = "none"
    /\ \E VectorCount \in 0 .. MAX_IO_VECTOR_COUNT + 1 :
       \E IoVector \in VectorsOfLength(VectorCount) :
       \E VectorInKernelMode \in BOOLEAN, Pool \in VectorPoolAnswers :
       \E r \in {CreateFromVector(IoVector, VectorInKernelMode, Pool)} :
            IF r.Status = STATUS_SUCCESS
            THEN /\ IoBuffer' = r.b
                 /\ life' = "live"
                 /\ DidCall("construct", STATUS_SUCCESS,
                            [IoVector |-> IoVector,
                             Allocated |-> r.Allocated, Freed |-> r.Freed],
                            NoBuffer)
                 /\ UNCHANGED <<physAlloc, lockCount, cacheRef, vaReserved>>
            ELSE \E rel \in {MmFreeIoBuffer(r.b, cacheVa, NULL)} :
                 \E after \in {EnvAfterRelease(Env, rel)} :
                    /\ IoBuffer' = NoBuffer
                    /\ life' = "freed"
                    /\ physAlloc' = after.physAlloc
                    /\ lockCount' = after.lockCount
                    /\ cacheRef' = after.cacheRef
                    /\ vaReserved' = after.vaReserved
                    /\ last' = [Op |-> "construct", Status |-> r.Status,
                                Calls |-> ReleaseCalls(rel),
                                Args |-> [IoVector |-> IoVector,
                                         Allocated |-> r.Allocated,
                                         Freed |-> r.Freed],
                                Out |-> NoBuffer]
    /\ UNCHANGED <<cacheVa, owned, memory, peer>>

(***************************************************************************)
(* MmValidateIoBuffer.  The routine keeps the caller's buffer, extends it  *)
(* or allocates a replacement with MmAllocateNonPagedIoBuffer.             *)
(***************************************************************************)
\* The walk over the fragments from the cursor; TRUE when the bytes do not
\* meet the constraints and a replacement has to be allocated.  The walk
\* stops at the end of the fragment table.
RECURSIVE ValidateWalk(_, _, _, _, _, _, _, _, _, _)
ValidateWalk(b, MinimumPhysicalAddress, MaximumPhysicalAddress, Alignment, PhysicallyContiguous, BufferOffset, EndOffset, CurrentOffset, FragmentIndex, PhysicalAddressEnd) ==
    IF BufferOffset >= EndOffset \/ FragmentIndex >= b.MaxFragmentCount
    THEN FALSE
    ELSE LET Fragment == ReadFragment(b, FragmentIndex)
             FragmentOffset == BufferOffset - CurrentOffset
             PhysicalAddressStart == Fragment.PhysicalAddress + FragmentOffset
             FragmentSize == Fragment.Size - FragmentOffset
         IN IF BufferOffset >= CurrentOffset + Fragment.Size
            THEN ValidateWalk(b, MinimumPhysicalAddress, MaximumPhysicalAddress, Alignment, PhysicallyContiguous,
                              BufferOffset, EndOffset,
                              CurrentOffset + Fragment.Size,
                              FragmentIndex + 1, PhysicalAddressEnd)
            ELSE IF /\ PhysicallyContiguous
                    /\ PhysicalAddressEnd # INVALID_PHYSICAL_ADDRESS
                    /\ PhysicalAddressStart # PhysicalAddressEnd
            THEN TRUE
            ELSE IF \/ ~IS_ALIGNED(PhysicalAddressStart, Alignment)
                    \/ ~IS_ALIGNED(FragmentSize, Alignment)
            THEN TRUE
            ELSE IF \/ PhysicalAddressStart < MinimumPhysicalAddress
                    \/ PhysicalAddressStart + FragmentSize
                          > MaximumPhysicalAddress
            THEN TRUE
            ELSE ValidateWalk(b, MinimumPhysicalAddress, MaximumPhysicalAddress, Alignment, PhysicallyContiguous,
                              BufferOffset + FragmentSize, EndOffset,
                              CurrentOffset + Fragment.Size,
                              FragmentIndex + 1,
                              PhysicalAddressStart + FragmentSize)

\* Whether the walk asks for a replacement.
ValidateNeedsReplacement(b, MinimumPhysicalAddress, MaximumPhysicalAddress, Alignment, SizeInBytes, PhysicallyContiguous) ==
    /\ b.CurrentOffset # b.TotalSize
    /\ ValidateWalk(b, MinimumPhysicalAddress, MaximumPhysicalAddress, Alignment, PhysicallyContiguous,
                    b.CurrentOffset,
                    IF Uintn(b.CurrentOffset + SizeInBytes) > b.TotalSize
                    THEN b.TotalSize
                    ELSE Uintn(b.CurrentOffset + SizeInBytes),
                    0, 0, INVALID_PHYSICAL_ADDRESS)

\* The path of a routine that does not look at IO_BUFFER_FLAG_USER_MODE.
ValidateDecisionOfWalk(b, MinimumPhysicalAddress, MaximumPhysicalAddress, Alignment, SizeInBytes, PhysicallyContiguous) ==
    IF /\ IO_BUFFER_FLAG_EXTENDABLE \notin b.Flags
       /\ Uintn(b.CurrentOffset + SizeInBytes) > b.TotalSize
    THEN "too_small"
    ELSE IF ValidateNeedsReplacement(b, MinimumPhysicalAddress,
                                     MaximumPhysicalAddress, Alignment,
                                     SizeInBytes, PhysicallyContiguous)
    THEN "allocate"
    ELSE "keep"

\* The path of a routine that does not compare the size asked for with the
\* size of a buffer that cannot be extended.
ValidateDecisionOfAnySize(b, MinimumPhysicalAddress, MaximumPhysicalAddress, Alignment, SizeInBytes, PhysicallyContiguous) ==
    IF IO_BUFFER_FLAG_USER_MODE \in b.Flags
    THEN "allocate"
    ELSE IF ValidateNeedsReplacement(b, MinimumPhysicalAddress,
                                     MaximumPhysicalAddress, Alignment,
                                     SizeInBytes, PhysicallyContiguous)
    THEN "allocate"
    ELSE IF /\ IO_BUFFER_FLAG_EXTENDABLE \in b.Flags
            /\ Uintn(b.CurrentOffset + SizeInBytes) > b.TotalSize
    THEN IF PhysicallyContiguous /\ b.CurrentOffset # b.TotalSize
         THEN "allocate"
         ELSE "extend"
    ELSE "keep"

\* The path the routine takes on b.
ValidateDecision(b, MinimumPhysicalAddress, MaximumPhysicalAddress, Alignment, SizeInBytes, PhysicallyContiguous) ==
    IF /\ IO_BUFFER_FLAG_EXTENDABLE \notin b.Flags
       /\ Uintn(b.CurrentOffset + SizeInBytes) > b.TotalSize
    THEN "too_small"
    ELSE IF IO_BUFFER_FLAG_USER_MODE \in b.Flags
    THEN "allocate"
    ELSE IF ValidateNeedsReplacement(b, MinimumPhysicalAddress, MaximumPhysicalAddress, Alignment, SizeInBytes,
                                     PhysicallyContiguous)
    THEN "allocate"
    ELSE IF /\ IO_BUFFER_FLAG_EXTENDABLE \in b.Flags
            /\ Uintn(b.CurrentOffset + SizeInBytes) > b.TotalSize
    THEN IF PhysicallyContiguous /\ b.CurrentOffset # b.TotalSize
         THEN "allocate"
         ELSE "extend"
    ELSE "keep"

ValidateExtensionSize(b, SizeInBytes) ==
    Uintn(Uintn(b.CurrentOffset + SizeInBytes) - b.TotalSize)

\* The result of MmpExtendIoBuffer as the result of the validation.
ValidateExtended(r) == [b |-> r.b, Out |-> NoBuffer, Status |-> r.Status]

\* Buffer is the pointer the caller passes in *IoBuffer and b the descriptor
\* it points to.  ExtendPlan is what the page allocator answers to an
\* extension; VirtualAddress and PagePlan are what the replacement is built
\* from, and VirtualAddress is NULL when MmAllocateNonPagedIoBuffer fails.
\* Out is the replacement stored in *IoBuffer, or NoBuffer when *IoBuffer is
\* left alone.
MmValidateIoBuffer(Buffer, b, MinimumPhysicalAddress, MaximumPhysicalAddress, Alignment, SizeInBytes, PhysicallyContiguous, ExtendPlan, VirtualAddress, PagePlan) ==
    CASE Buffer = NULL
           -> [b |-> b, Out |-> NoBuffer, Status |-> STATUS_INVALID_PARAMETER]
      [] ValidateDecision(b, MinimumPhysicalAddress, MaximumPhysicalAddress, Alignment, SizeInBytes,
                          PhysicallyContiguous) = "too_small"
           -> [b |-> b, Out |-> NoBuffer, Status |-> STATUS_BUFFER_TOO_SMALL]
      [] ValidateDecision(b, MinimumPhysicalAddress, MaximumPhysicalAddress, Alignment, SizeInBytes,
                          PhysicallyContiguous) = "keep"
           -> [b |-> b, Out |-> NoBuffer, Status |-> STATUS_SUCCESS]
      [] ValidateDecision(b, MinimumPhysicalAddress, MaximumPhysicalAddress, Alignment, SizeInBytes,
                          PhysicallyContiguous) = "extend"
           -> ValidateExtended(
                  MmpExtendIoBuffer(b, ValidateExtensionSize(b, SizeInBytes),
                                    PhysicallyContiguous, ExtendPlan))
      [] OTHER
           -> IF VirtualAddress = NULL
              THEN [b |-> b, Out |-> NoBuffer,
                    Status |-> STATUS_INSUFFICIENT_RESOURCES]
              ELSE [b |-> b,
                    Out |-> MmAllocateNonPagedIoBuffer(
                                SizeInBytes, Alignment, PhysicallyContiguous,
                                VirtualAddress, PagePlan),
                    Status |-> STATUS_SUCCESS]

\* The address of the descriptor, for the caller's pointer to it.
BufferAddress == 1

\* The arguments of the calls made on the routine with a buffer.
ValidateArgs ==
    [Buffer : {BufferAddress},
     Min : {0, 2 * PageSize},
     Max : {MAX_ULONG, MAX_ULONGLONG},
     Alignment : {1, PageSize},
     SizeInBytes : {1, PageSize, MaxBufferPages * PageSize},
     PhysicallyContiguous : BOOLEAN]

\* The arguments of the calls made without one.
ValidateNullArgs ==
    [Buffer : {NULL},
     Min : {0},
     Max : {MAX_ULONG, MAX_ULONGLONG},
     Alignment : {PageSize},
     SizeInBytes : {PageSize},
     PhysicallyContiguous : BOOLEAN]

\* MmpExtendIoBuffer and MmAllocateNonPagedIoBuffer assert that no range of
\* physical addresses is asked for.
ValidatePrecondition(b, a) ==
    ValidateDecision(b, a.Min, a.Max, a.Alignment, a.SizeInBytes,
                     a.PhysicallyContiguous) \in {"extend", "allocate"}
        => /\ a.Min = 0
           /\ a.Max \in {MAX_ULONG, MAX_ULONGLONG}

ValidateCall(b, a, ExtendPlan, VirtualAddress, PagePlan) ==
    MmValidateIoBuffer(a.Buffer, b, a.Min, a.Max, a.Alignment,
                       a.SizeInBytes, a.PhysicallyContiguous, ExtendPlan,
                       VirtualAddress, PagePlan)

\* The call that keeps the buffer or rejects it.
ValidateInPlace(a) ==
    /\ ValidateDecision(IoBuffer, a.Min, a.Max, a.Alignment, a.SizeInBytes,
                        a.PhysicallyContiguous) \in {"too_small", "keep"}
    /\ \E r \in {ValidateCall(IoBuffer, a, <<>>, NULL, <<>>)} :
          DidCall("validate", r.Status, a, r.Out)
    /\ UNCHANGED <<IoBuffer, life, physAlloc, owned, vaReserved, memory, peer>>

\* The call that extends the buffer.
ValidateByExtension(a) ==
    /\ ValidateDecision(IoBuffer, a.Min, a.Max, a.Alignment, a.SizeInBytes,
                        a.PhysicallyContiguous) = "extend"
    /\ \E c \in ExtendCalls(IoBuffer, AllocPages \ physAlloc) :
          /\ c.Size = ValidateExtensionSize(IoBuffer, a.SizeInBytes)
          /\ c.PhysicallyContiguous = a.PhysicallyContiguous
          /\ \E r \in {ValidateCall(IoBuffer, a, c.Plan, NULL, <<>>)} :
                /\ IoBuffer' = r.b
                /\ DidCall("validate", r.Status, a, r.Out)
                /\ \E Got \in {IF r.Status = STATUS_BUFFER_TOO_SMALL THEN {}
                               ELSE PlanPages(ExtendPageCount(c.Size),
                                              c.PhysicallyContiguous,
                                              c.Plan)} :
                      /\ physAlloc' = physAlloc \cup Got
                      /\ owned' = owned \cup Got
                      /\ UNCHANGED <<memory, peer>>
    /\ UNCHANGED <<life, vaReserved>>

\* The call that allocates a replacement.  The caller then holds two
\* buffers, and the model follows the descriptor no further.
ValidateByReplacement(a) ==
    /\ ValidateDecision(IoBuffer, a.Min, a.Max, a.Alignment, a.SizeInBytes,
                        a.PhysicallyContiguous) = "allocate"
    /\ \E PageCount \in {NonPagedAlignedSize(a.SizeInBytes, a.Alignment)
                            \div PageSize} :
          \/ \E VirtualAddress \in FreeVaRanges(PageCount, vaReserved),
                Plan \in {q \in IF a.PhysicallyContiguous
                                THEN RunPlans(PageCount,
                                              AllocPages \ physAlloc)
                                ELSE PagePlans(PageCount,
                                               AllocPages \ physAlloc) :
                             \A i \in DOMAIN q :
                                q[i] # INVALID_PHYSICAL_ADDRESS} :
                /\ \E r \in {ValidateCall(IoBuffer, a, <<>>, VirtualAddress,
                                          Plan)} :
                      DidCall("validate", r.Status, a, r.Out)
                /\ physAlloc' = physAlloc \cup
                      PlanPages(PageCount, a.PhysicallyContiguous, Plan)
                /\ vaReserved' = vaReserved \cup
                      RangePages(VirtualAddress, PageCount * PageSize)
                /\ life' = "replaced"
          \/ /\ \E r \in {ValidateCall(IoBuffer, a, <<>>, NULL, <<>>)} :
                   DidCall("validate", r.Status, a, r.Out)
             /\ UNCHANGED <<life, physAlloc, vaReserved>>
    /\ UNCHANGED <<IoBuffer, owned, memory, peer>>

ValidateIoBuffer ==
    /\ \/ /\ \E a \in ValidateNullArgs :
                \E r \in {ValidateCall(IoBuffer, a, <<>>, NULL, <<>>)} :
                   DidCall("validate", r.Status, a, r.Out)
          /\ UNCHANGED <<IoBuffer, life, physAlloc, owned, vaReserved, memory, peer>>
       \/ /\ life = "live"
          /\ \E a \in ValidateArgs :
                /\ ValidatePrecondition(IoBuffer, a)
                /\ \/ ValidateInPlace(a)
                   \/ ValidateByExtension(a)
                   \/ ValidateByReplacement(a)
    /\ UNCHANGED <<lockCount, cacheRef, cacheVa>>

(***************************************************************************)
(* MmValidateIoBufferForCachedIo.  Buffer is the caller's pointer, b the   *)
(* descriptor behind it, Allocated whether MmAllocateUninitializedIoBuffer *)
(* returns a buffer.  Out is the buffer the routine leaves in *IoBuffer.   *)
(***************************************************************************)
CachedIoAllocates(Buffer, b, SizeInBytes, Alignment) ==
    \/ Buffer = NULL
    \/ IO_BUFFER_FLAG_PAGE_CACHE_BACKED \notin b.Flags
    \/ IO_BUFFER_FLAG_EXTENDABLE \notin b.Flags
    \/ ~IS_ALIGNED(b.CurrentOffset, Alignment)
    \/ b.CurrentOffset # b.TotalSize
    \/ ALIGN_RANGE_UP(SizeInBytes, PageSize) \div PageSize
          > b.MaxFragmentCount - b.FragmentCount

MmValidateIoBufferForCachedIo(Buffer, b, SizeInBytes, Alignment, Allocated) ==
    IF CachedIoAllocates(Buffer, b, SizeInBytes, Alignment)
    THEN IF Allocated
         THEN [Out |-> MmAllocateUninitializedIoBuffer(
                           ALIGN_RANGE_UP(SizeInBytes, Alignment), TRUE),
               Status |-> STATUS_SUCCESS]
         ELSE [Out |-> b, Status |-> STATUS_INSUFFICIENT_RESOURCES]
    ELSE [Out |-> b, Status |-> STATUS_SUCCESS]

\* The caller keeps the buffer it had; when the routine hands out a fresh
\* one the caller holds two, and the model follows the descriptor no
\* further.
ValidateIoBufferForCachedIo ==
    /\ life \in {"none", "live"}
    /\ \E SizeInBytes \in 1 .. MaxBufferPages * PageSize,
          Alignment \in {1, PageSize}, Allocated \in BOOLEAN :
         \E Buffer \in {IF life = "none" THEN NULL ELSE BufferAddress} :
         \E r \in {MmValidateIoBufferForCachedIo(Buffer, IoBuffer,
                                                 SizeInBytes, Alignment,
                                                 Allocated)} :
            /\ Allocated \/ CachedIoAllocates(Buffer, IoBuffer, SizeInBytes,
                                              Alignment)
            /\ DidCall("validate cached", r.Status,
                       [Buffer |-> Buffer, SizeInBytes |-> SizeInBytes,
                        Alignment |-> Alignment],
                       r.Out)
            /\ life' = IF /\ r.Status = STATUS_SUCCESS
                          /\ CachedIoAllocates(Buffer, IoBuffer, SizeInBytes,
                                               Alignment)
                       THEN "replaced"
                       ELSE life
    /\ UNCHANGED <<IoBuffer, physAlloc, lockCount, cacheRef, cacheVa,
                   vaReserved, owned, memory, peer>>

(***************************************************************************)
(* The routines that move data: MmZeroIoBuffer, MmCopyIoBufferData and     *)
(* MmCopyIoBuffer.  A fragment's virtual address maps its physical         *)
(* address, so a byte a routine reaches through Fragment->VirtualAddress   *)
(* is the byte of memory at Fragment->PhysicalAddress plus the same        *)
(* offset.  A fragment without a virtual address gives the routine the     *)
(* address NULL plus the offset: the access either faults, which stops the *)
(* kernel, or lands in whatever the current process has mapped there,      *)
(* which is no byte of the buffer (NullMapped).                            *)
(***************************************************************************)
Smaller(a, b) == IF a < b THEN a ELSE b

\* The physical addresses of Size bytes starting FragmentOffset bytes into
\* Fragment, in order.
FragmentBytes(Fragment, FragmentOffset, Size) ==
    [k \in 1 .. Size |-> Fragment.PhysicalAddress + FragmentOffset + k - 1]

\* A store of Bytes at FragmentOffset bytes into Fragment.
StoreBytes(m, Fragment, FragmentOffset, Bytes) ==
    [Address \in PhysicalBytes |->
        LET k == Address - Fragment.PhysicalAddress - FragmentOffset + 1
        IN IF k \in DOMAIN Bytes THEN Bytes[k] ELSE m[Address]]

\* A load of Size bytes at FragmentOffset bytes into Fragment.
LoadBytes(m, Fragment, FragmentOffset, Size) ==
    [k \in 1 .. Size |-> m[FragmentBytes(Fragment, FragmentOffset, Size)[k]]]

\* The bytes the three routines have the buffer grow by before they touch
\* it: none unless the buffer is extendable and ends before End.
ExtensionSize(b, End, MayExtend) ==
    IF /\ MayExtend
       /\ IO_BUFFER_FLAG_EXTENDABLE \in b.Flags
       /\ End > b.TotalSize
    THEN End - b.TotalSize
    ELSE 0

\* What the page allocator can answer during that extension.
ExtensionPlans(b, Size, FreePages) ==
    IF Size = 0 \/ ExtendPageCount(Size) > ExtendAvailableFragments(b)
    THEN {<<INVALID_PHYSICAL_ADDRESS>>}
    ELSE PagePlans(ExtendPageCount(Size), FreePages)

\* The start the three routines share: extend the buffer to End when it is
\* extendable and shorter, then make sure it is mapped.  Got are the pages
\* the extension took from the allocator.
ExtendAndMap(b, End, MayExtend, ExtendPlan, CacheVa, Garbage, MapPlan, VaInUse) ==
    LET Size == ExtensionSize(b, End, MayExtend)
        e == IF Size # 0
             THEN MmpExtendIoBuffer(b, Size, FALSE, ExtendPlan)
             ELSE [b |-> b, Status |-> STATUS_SUCCESS]
        Got == IF Size = 0
                  \/ ExtendPageCount(Size) > ExtendAvailableFragments(b)
               THEN {}
               ELSE PlanPages(ExtendPageCount(Size), FALSE, ExtendPlan)
    IN IF e.Status # STATUS_SUCCESS
       THEN [b |-> e.b, CacheVa |-> CacheVa, Ranges |-> <<>>,
             Reserve |-> {}, Possible |-> Len(MapPlan) = 0, Got |-> Got,
             Asserted |-> TRUE, Status |-> e.Status]
       ELSE LET r == MmMapIoBuffer(e.b, CacheVa, Garbage, FALSE, MapPlan,
                                   VaInUse)
            IN [b |-> r.b, CacheVa |-> r.CacheVa, Ranges |-> r.Ranges,
                Reserve |-> r.Reserve, Possible |-> r.Possible, Got |-> Got,
                Asserted |-> MapPrecondition(e.b, FALSE),
                Status |-> r.Status]

\* Whether the process has memory at NULL matters only to a buffer with a
\* fragment that has no virtual address.
NullAnswers(b) ==
    IF \E i \in 0 .. b.FragmentCount - 1 :
          ReadFragment(b, i).VirtualAddress = NULL
    THEN BOOLEAN
    ELSE {FALSE}

\* The loop of MmZeroIoBuffer over the fragments.
RECURSIVE ZeroLoop(_, _, _, _, _, _, _)
ZeroLoop(b, m, Offset, ByteCount, FragmentIndex, CurrentOffset, NullMapped) ==
    IF ByteCount = 0
    THEN [memory |-> m, Status |-> STATUS_SUCCESS, Crash |-> FALSE]
    ELSE IF FragmentIndex >= b.FragmentCount
    THEN [memory |-> m, Status |-> STATUS_INCORRECT_BUFFER_SIZE,
          Crash |-> FALSE]
    ELSE LET Fragment == ReadFragment(b, FragmentIndex)
             FragmentOffset == IF Offset > CurrentOffset
                               THEN Offset - CurrentOffset
                               ELSE 0
             ZeroSize == Smaller(Fragment.Size - FragmentOffset, ByteCount)
         IN IF CurrentOffset + Fragment.Size <= Offset
            THEN ZeroLoop(b, m, Offset, ByteCount, FragmentIndex + 1,
                          CurrentOffset + Fragment.Size, NullMapped)
            ELSE IF Fragment.VirtualAddress = NULL /\ ~NullMapped
            THEN [memory |-> m, Status |-> STATUS_SUCCESS, Crash |-> TRUE]
            ELSE ZeroLoop(b,
                          IF Fragment.VirtualAddress = NULL THEN m
                          ELSE StoreBytes(m, Fragment, FragmentOffset,
                                          [k \in 1 .. ZeroSize |-> 0]),
                          Offset, ByteCount - ZeroSize, FragmentIndex + 1,
                          CurrentOffset + Fragment.Size, NullMapped)

\* MmZeroIoBuffer on top of what ExtendAndMap (p) left.
MmZeroIoBuffer(p, m, Offset, ByteCount, NullMapped) ==
    IF p.Status # STATUS_SUCCESS
    THEN [memory |-> m, Status |-> p.Status, Crash |-> FALSE]
    ELSE ZeroLoop(p.b, m, Offset, ByteCount, 0, 0, NullMapped)

ZeroIoBufferOf(ByteCounts) ==
    /\ life = "live"
    /\ IO_BUFFER_FLAG_USER_MODE \notin IoBuffer.Flags
    /\ \E Argument \in 0 .. MaxBufferPages * PageSize,
          ByteCount \in ByteCounts,
          Garbage \in GarbageChoices(IoBuffer), MapPlan \in VaPlans :
       \E Offset \in {Uintn(Argument + IoBuffer.CurrentOffset)} :
       \E ExtendPlan \in ExtensionPlans(
                             IoBuffer,
                             ExtensionSize(IoBuffer,
                                           Uintn(Offset + ByteCount), TRUE),
                             AllocPages \ physAlloc) :
       \E p \in {ExtendAndMap(IoBuffer, Uintn(Offset + ByteCount), TRUE,
                              ExtendPlan, cacheVa, Garbage, MapPlan,
                              vaReserved)} :
            /\ \/ IO_BUFFER_FLAG_EXTENDABLE \in IoBuffer.Flags
               \/ Uintn(Offset + ByteCount) <= IoBuffer.TotalSize
            /\ p.Asserted
            /\ p.Possible
            /\ \E NullMapped \in NullAnswers(p.b) :
               \E r \in {MmZeroIoBuffer(p, memory, Offset, ByteCount,
                                        NullMapped)} :
                    /\ memory' = r.memory
                    /\ life' = IF r.Crash THEN "crashed" ELSE life
                    /\ last' = [Op |-> "zero", Status |-> r.Status,
                                Calls |-> UnmapCalls(p.Ranges),
                                Args |-> [Offset |-> Argument,
                                          ByteCount |-> ByteCount],
                                Out |-> NoBuffer]
            /\ IoBuffer' = p.b
            /\ cacheVa' = p.CacheVa
            /\ vaReserved' = {v \in vaReserved : RangeCover(p.Ranges, v) = 0}
                             \cup p.Reserve
            /\ physAlloc' = physAlloc \cup p.Got
            /\ owned' = owned \cup p.Got
    /\ UNCHANGED <<lockCount, cacheRef, peer>>

ZeroIoBuffer == ZeroIoBufferOf(0 .. MaxBufferPages * PageSize)

\* Byte counts near the largest a UINTN holds: the end of the range,
\* Offset + ByteCount, wraps around.
LongCounts == {UintnModulus - 2, UintnModulus - 1}

ZeroLongRange == ZeroIoBufferOf(LongCounts)

(***************************************************************************)
(* MmCopyIoBufferData.  Linear is the caller's linear buffer, byte by      *)
(* byte, and Position how far the routine has advanced Buffer in it.       *)
(* UserCopy is what MmCopyToUserMode and MmCopyFromUserMode answer for a   *)
(* user mode buffer, and NullByte the byte a load from NULL plus an offset *)
(* gives where the process has memory there.                               *)
(***************************************************************************)
\* What the caller's linear buffer holds before the call.
LinearBytes(Size) == [k \in 1 .. Size |-> Cardinality(PhysicalBytes) + k]

\* The bytes of Linear from Position on, Size of them.
LinearPart(Linear, Position, Size) ==
    [k \in 1 .. Size |-> Linear[Position + k]]

\* Linear with Bytes stored from Position on.
LinearWith(Linear, Position, Bytes) ==
    [k \in DOMAIN Linear |->
        IF k - Position \in DOMAIN Bytes THEN Bytes[k - Position]
        ELSE Linear[k]]

\* The loop over the fragments copying at the start of every fragment,
\* wherever in the fragment the offset lies.
RECURSIVE CopyDataLoopAtFragmentStart(_, _, _, _, _, _, _, _, _)
CopyDataLoopAtFragmentStart(b, m, Linear, Position, Offset, Size, ToIoBuffer, s, answers) ==
    IF Size = 0
    THEN [memory |-> m, Linear |-> Linear, Status |-> STATUS_SUCCESS,
          Crash |-> FALSE]
    ELSE IF s.FragmentIndex >= b.FragmentCount
    THEN [memory |-> m, Linear |-> Linear,
          Status |-> STATUS_INCORRECT_BUFFER_SIZE, Crash |-> FALSE]
    ELSE LET Fragment == ReadFragment(b, s.FragmentIndex)
             CopyOffset == IF Offset > s.CurrentOffset
                           THEN Offset - s.CurrentOffset
                           ELSE 0
             CopySize == Smaller(Fragment.Size - CopyOffset, Size)
             Advanced == [FragmentIndex |-> s.FragmentIndex + 1,
                      CurrentOffset |-> s.CurrentOffset + Fragment.Size]
             UserMode == IO_BUFFER_FLAG_USER_MODE \in b.Flags
         IN IF s.CurrentOffset + Fragment.Size <= Offset
            THEN CopyDataLoopAtFragmentStart(b, m, Linear, Position, Offset, Size,
                              ToIoBuffer, Advanced, answers)
            ELSE IF UserMode /\ answers.UserCopy # STATUS_SUCCESS
            THEN [memory |-> m, Linear |-> Linear,
                  Status |-> answers.UserCopy, Crash |-> FALSE]
            ELSE IF Fragment.VirtualAddress = NULL /\ ~answers.NullMapped
            THEN [memory |-> m, Linear |-> Linear,
                  Status |-> STATUS_SUCCESS, Crash |-> TRUE]
            ELSE IF ToIoBuffer
            THEN CopyDataLoopAtFragmentStart(
                     b,
                     IF Fragment.VirtualAddress = NULL THEN m
                     ELSE StoreBytes(m, Fragment, 0,
                                     LinearPart(Linear, Position, CopySize)),
                     Linear, Position + CopySize, Offset, Size - CopySize,
                     ToIoBuffer, Advanced, answers)
            ELSE CopyDataLoopAtFragmentStart(
                     b, m,
                     LinearWith(Linear, Position,
                                IF Fragment.VirtualAddress = NULL
                                THEN [k \in 1 .. CopySize |->
                                         answers.NullByte]
                                ELSE LoadBytes(m, Fragment, 0,
                                               CopySize)),
                     Position + CopySize, Offset, Size - CopySize,
                     ToIoBuffer, Advanced, answers)

\* The loop of MmCopyIoBufferData over the fragments.
RECURSIVE CopyDataLoop(_, _, _, _, _, _, _, _, _)
CopyDataLoop(b, m, Linear, Position, Offset, Size, ToIoBuffer, s, answers) ==
    IF Size = 0
    THEN [memory |-> m, Linear |-> Linear, Status |-> STATUS_SUCCESS,
          Crash |-> FALSE]
    ELSE IF s.FragmentIndex >= b.FragmentCount
    THEN [memory |-> m, Linear |-> Linear,
          Status |-> STATUS_INCORRECT_BUFFER_SIZE, Crash |-> FALSE]
    ELSE LET Fragment == ReadFragment(b, s.FragmentIndex)
             CopyOffset == IF Offset > s.CurrentOffset
                           THEN Offset - s.CurrentOffset
                           ELSE 0
             CopySize == Smaller(Fragment.Size - CopyOffset, Size)
             Advanced == [FragmentIndex |-> s.FragmentIndex + 1,
                      CurrentOffset |-> s.CurrentOffset + Fragment.Size]
             UserMode == IO_BUFFER_FLAG_USER_MODE \in b.Flags
         IN IF s.CurrentOffset + Fragment.Size <= Offset
            THEN CopyDataLoop(b, m, Linear, Position, Offset, Size,
                              ToIoBuffer, Advanced, answers)
            ELSE IF UserMode /\ answers.UserCopy # STATUS_SUCCESS
            THEN [memory |-> m, Linear |-> Linear,
                  Status |-> answers.UserCopy, Crash |-> FALSE]
            ELSE IF Fragment.VirtualAddress = NULL /\ ~answers.NullMapped
            THEN [memory |-> m, Linear |-> Linear,
                  Status |-> STATUS_SUCCESS, Crash |-> TRUE]
            ELSE IF ToIoBuffer
            THEN CopyDataLoop(
                     b,
                     IF Fragment.VirtualAddress = NULL THEN m
                     ELSE StoreBytes(m, Fragment, CopyOffset,
                                     LinearPart(Linear, Position, CopySize)),
                     Linear, Position + CopySize, Offset, Size - CopySize,
                     ToIoBuffer, Advanced, answers)
            ELSE CopyDataLoop(
                     b, m,
                     LinearWith(Linear, Position,
                                IF Fragment.VirtualAddress = NULL
                                THEN [k \in 1 .. CopySize |->
                                         answers.NullByte]
                                ELSE LoadBytes(m, Fragment, CopyOffset,
                                               CopySize)),
                     Position + CopySize, Offset, Size - CopySize,
                     ToIoBuffer, Advanced, answers)

\* MmCopyIoBufferData on top of what ExtendAndMap (p) left.
MmCopyIoBufferData(p, m, Linear, Offset, Size, ToIoBuffer, answers) ==
    IF p.Status # STATUS_SUCCESS
    THEN [memory |-> m, Linear |-> Linear, Status |-> p.Status,
          Crash |-> FALSE]
    ELSE CopyDataLoop(p.b, m, Linear, 0, Offset, Size, ToIoBuffer,
                      [FragmentIndex |-> 0, CurrentOffset |-> 0], answers)

\* What the collaborators can answer during the loop.
UserCopyAnswers(b) ==
    IF IO_BUFFER_FLAG_USER_MODE \in b.Flags
    THEN {STATUS_SUCCESS, STATUS_ACCESS_VIOLATION}
    ELSE {STATUS_SUCCESS}

\* The bytes a load from NULL plus an offset can give.
NullBytes(b) == IF TRUE \in NullAnswers(b) THEN {0, 255} ELSE {0}

CopyAnswers(b) ==
    [UserCopy : UserCopyAnswers(b), NullMapped : NullAnswers(b),
     NullByte : NullBytes(b)]

CopyIoBufferDataOf(Sizes) ==
    /\ life = "live"
    /\ \E Argument \in 0 .. MaxBufferPages * PageSize,
          Size \in Sizes, ToIoBuffer \in BOOLEAN,
          Garbage \in GarbageChoices(IoBuffer), MapPlan \in VaPlans :
       \E Offset \in {Uintn(Argument + IoBuffer.CurrentOffset)} :
       \E ExtendPlan \in ExtensionPlans(
                             IoBuffer,
                             ExtensionSize(IoBuffer, Uintn(Offset + Size),
                                           ToIoBuffer),
                             AllocPages \ physAlloc) :
       \E p \in {ExtendAndMap(IoBuffer, Uintn(Offset + Size), ToIoBuffer,
                              ExtendPlan, cacheVa, Garbage, MapPlan,
                              vaReserved)} :
            /\ ToIoBuffer \/ Uintn(Offset + Size) <= IoBuffer.TotalSize
            /\ \/ ~ToIoBuffer
               \/ IO_BUFFER_FLAG_EXTENDABLE \in IoBuffer.Flags
               \/ Uintn(Offset + Size) <= IoBuffer.TotalSize
            /\ p.Asserted
            /\ p.Possible
            /\ \E answers \in CopyAnswers(p.b) :
               \E r \in {MmCopyIoBufferData(p, memory, LinearBytes(Size),
                                            Offset, Size, ToIoBuffer,
                                            answers)} :
                    /\ memory' = r.memory
                    /\ life' = IF r.Crash THEN "crashed" ELSE life
                    /\ last' = [Op |-> "copy data", Status |-> r.Status,
                                Calls |-> UnmapCalls(p.Ranges),
                                Args |-> [Offset |-> Argument,
                                          Size |-> Size,
                                          ToIoBuffer |-> ToIoBuffer,
                                          Linear |-> r.Linear],
                                Out |-> NoBuffer]
            /\ IoBuffer' = p.b
            /\ cacheVa' = p.CacheVa
            /\ vaReserved' = {v \in vaReserved : RangeCover(p.Ranges, v) = 0}
                             \cup p.Reserve
            /\ physAlloc' = physAlloc \cup p.Got
            /\ owned' = owned \cup p.Got
    /\ UNCHANGED <<lockCount, cacheRef, peer>>

CopyIoBufferData == CopyIoBufferDataOf(0 .. MaxBufferPages * PageSize)

CopyLongData == CopyIoBufferDataOf(LongCounts)

(***************************************************************************)
(* MmCopyIoBuffer.  The routine first finds, in each buffer, the fragment  *)
(* its offset lies in; the loop then copies what is left of the shorter of *)
(* the two current fragments and steps to the next fragment of whichever   *)
(* is used up.                                                             *)
(***************************************************************************)
\* The search for the fragment holding Offset: its index and the offset
\* within it.  When no fragment holds it the locals are left at the last
\* fragment and at the sum of the sizes.
RECURSIVE CopyStart(_, _, _, _)
CopyStart(b, Offset, FragmentIndex, FragmentOffset) ==
    IF FragmentIndex >= b.FragmentCount
    THEN [Index |-> b.FragmentCount - 1, Offset |-> FragmentOffset]
    ELSE IF FragmentOffset + ReadFragment(b, FragmentIndex).Size > Offset
    THEN [Index |-> FragmentIndex, Offset |-> Offset - FragmentOffset]
    ELSE CopyStart(b, Offset, FragmentIndex + 1,
                   FragmentOffset + ReadFragment(b, FragmentIndex).Size)

\* One side of the loop after BytesThisRound bytes: c is the fragment index,
\* the offset in the fragment and the bytes left in it.
CopyAdvance(b, c, BytesThisRound) ==
    IF c.Max - BytesThisRound = 0
    THEN [Index |-> c.Index + 1, Offset |-> 0,
          Max |-> ReadFragment(b, c.Index + 1).Size]
    ELSE [Index |-> c.Index, Offset |-> c.Offset + BytesThisRound,
          Max |-> c.Max - BytesThisRound]

\* The loop taking what is left of the destination's fragment every round,
\* whatever is left of the source's.
RECURSIVE CopyLoopByDestination(_, _, _, _, _, _, _)
CopyLoopByDestination(Destination, Source, m, d, s, ByteCount, answers) ==
    IF ByteCount = 0
    THEN [memory |-> m, Status |-> STATUS_SUCCESS, Crash |-> FALSE]
    ELSE IF \/ d.Index >= Destination.FragmentCount
            \/ s.Index >= Source.FragmentCount
    THEN [memory |-> m, Status |-> STATUS_SUCCESS, Crash |-> TRUE]
    ELSE LET BytesThisRound == Smaller(d.Max, ByteCount)
             DestinationFragment == ReadFragment(Destination, d.Index)
             SourceFragment == ReadFragment(Source, s.Index)
             UserMode ==
                 \/ IO_BUFFER_FLAG_USER_MODE \in Destination.Flags
                 \/ IO_BUFFER_FLAG_USER_MODE \in Source.Flags
         IN IF UserMode /\ answers.UserCopy # STATUS_SUCCESS
            THEN [memory |-> m, Status |-> answers.UserCopy,
                  Crash |-> FALSE]
            ELSE IF /\ \/ DestinationFragment.VirtualAddress = NULL
                       \/ SourceFragment.VirtualAddress = NULL
                    /\ ~answers.NullMapped
            THEN [memory |-> m, Status |-> STATUS_SUCCESS, Crash |-> TRUE]
            ELSE CopyLoopByDestination(
                     Destination, Source,
                     IF DestinationFragment.VirtualAddress = NULL THEN m
                     ELSE StoreBytes(
                              m, DestinationFragment, d.Offset,
                              IF SourceFragment.VirtualAddress = NULL
                              THEN [k \in 1 .. BytesThisRound |->
                                       answers.NullByte]
                              ELSE LoadBytes(m, SourceFragment, s.Offset,
                                             BytesThisRound)),
                     CopyAdvance(Destination, d, BytesThisRound),
                     CopyAdvance(Source, s, BytesThisRound),
                     ByteCount - BytesThisRound, answers)

\* The loop of MmCopyIoBuffer.  It stops the kernel when it is left with
\* bytes to copy and no fragment.
RECURSIVE CopyLoop(_, _, _, _, _, _, _)
CopyLoop(Destination, Source, m, d, s, ByteCount, answers) ==
    IF ByteCount = 0
    THEN [memory |-> m, Status |-> STATUS_SUCCESS, Crash |-> FALSE]
    ELSE IF \/ d.Index >= Destination.FragmentCount
            \/ s.Index >= Source.FragmentCount
    THEN [memory |-> m, Status |-> STATUS_SUCCESS, Crash |-> TRUE]
    ELSE LET BytesThisRound == Smaller(Smaller(d.Max, s.Max), ByteCount)
             DestinationFragment == ReadFragment(Destination, d.Index)
             SourceFragment == ReadFragment(Source, s.Index)
             UserMode ==
                 \/ IO_BUFFER_FLAG_USER_MODE \in Destination.Flags
                 \/ IO_BUFFER_FLAG_USER_MODE \in Source.Flags
         IN IF UserMode /\ answers.UserCopy # STATUS_SUCCESS
            THEN [memory |-> m, Status |-> answers.UserCopy,
                  Crash |-> FALSE]
            ELSE IF /\ \/ DestinationFragment.VirtualAddress = NULL
                       \/ SourceFragment.VirtualAddress = NULL
                    /\ ~answers.NullMapped
            THEN [memory |-> m, Status |-> STATUS_SUCCESS, Crash |-> TRUE]
            ELSE CopyLoop(
                     Destination, Source,
                     IF DestinationFragment.VirtualAddress = NULL THEN m
                     ELSE StoreBytes(
                              m, DestinationFragment, d.Offset,
                              IF SourceFragment.VirtualAddress = NULL
                              THEN [k \in 1 .. BytesThisRound |->
                                       answers.NullByte]
                              ELSE LoadBytes(m, SourceFragment, s.Offset,
                                             BytesThisRound)),
                     CopyAdvance(Destination, d, BytesThisRound),
                     CopyAdvance(Source, s, BytesThisRound),
                     ByteCount - BytesThisRound, answers)

\* The locals the loop starts with on one side.
CopyCursor(b, Offset) ==
    LET c == CopyStart(b, Offset, 0, 0)
    IN [Index |-> c.Index, Offset |-> c.Offset,
        Max |-> Uintn(ReadFragment(b, c.Index).Size - c.Offset)]

\* MmCopyIoBuffer on top of what ExtendAndMap left of the destination (pd)
\* and MmMapIoBuffer of the source (ps).  The offsets have the cursors added.
MmCopyIoBuffer(pd, ps, m, DestinationOffset, SourceOffset, ByteCount, answers) ==
    IF pd.Status # STATUS_SUCCESS
    THEN [memory |-> m, Status |-> pd.Status, Crash |-> FALSE]
    ELSE IF ps.Status # STATUS_SUCCESS
    THEN [memory |-> m, Status |-> ps.Status, Crash |-> FALSE]
    ELSE CopyLoop(pd.b, ps.b, m, CopyCursor(pd.b, DestinationOffset),
                  CopyCursor(ps.b, SourceOffset), ByteCount, answers)

\* The buffers of a copy by name: C is the descriptor, A and B are its peers.
Descriptor(Name) == IF Name = "C" THEN IoBuffer ELSE peer[Name]

\* A call with the destination and the source one of Pairs.
CopyIoBufferOf(Pairs) ==
    /\ life = "live"
    /\ \E Pair \in Pairs, DestinationArgument \in 0 .. 1,
          SourceArgument \in 0 .. 1,
          ByteCount \in 0 .. MaxBufferPages * PageSize,
          DestinationPlan \in VaPlans :
       \E Destination \in {Descriptor(Pair[1])},
          Source \in {Descriptor(Pair[2])} :
       \E DestinationOffset \in
              {Uintn(DestinationArgument + Destination.CurrentOffset)},
          SourceOffset \in {Uintn(SourceArgument + Source.CurrentOffset)},
          Garbage \in GarbageChoices(Destination)
                         \cup GarbageChoices(Source) :
       \E ExtendPlan \in ExtensionPlans(
                             Destination,
                             ExtensionSize(
                                 Destination,
                                 Uintn(DestinationOffset + ByteCount), TRUE),
                             AllocPages \ physAlloc) :
       \E pd \in {ExtendAndMap(Destination,
                               Uintn(DestinationOffset + ByteCount), TRUE,
                               ExtendPlan, cacheVa, Garbage, DestinationPlan,
                               vaReserved)} :
            /\ Uintn(SourceOffset + ByteCount) <= Source.TotalSize
            /\ \/ IO_BUFFER_FLAG_EXTENDABLE \in Destination.Flags
               \/ Uintn(DestinationOffset + ByteCount)
                     <= Destination.TotalSize
            /\ \/ IO_BUFFER_FLAG_USER_MODE \notin Destination.Flags
               \/ IO_BUFFER_FLAG_USER_MODE \notin Source.Flags
            /\ pd.Asserted
            /\ pd.Possible
            /\ \E SourcePlan \in VaPlans :
               \E ps \in {IF pd.Status = STATUS_SUCCESS
                           THEN MmMapIoBuffer(
                                    Source, pd.CacheVa, Garbage, FALSE,
                                    SourcePlan,
                                    {v \in vaReserved :
                                        RangeCover(pd.Ranges, v) = 0}
                                    \cup pd.Reserve)
                           ELSE [b |-> Source, CacheVa |-> pd.CacheVa,
                                 Ranges |-> <<>>, Reserve |-> {},
                                 Possible |-> Len(SourcePlan) = 0,
                                 Status |-> STATUS_SUCCESS]} :
                 /\ pd.Status = STATUS_SUCCESS
                       => MapPrecondition(Source, FALSE)
                 /\ ps.Possible
                 /\ \E answers \in
                        [UserCopy : UserCopyAnswers(pd.b)
                                       \cup UserCopyAnswers(ps.b),
                         NullMapped : NullAnswers(pd.b)
                                         \cup NullAnswers(ps.b),
                         NullByte : NullBytes(pd.b) \cup NullBytes(ps.b)] :
                    \E r \in {MmCopyIoBuffer(pd, ps, memory,
                                             DestinationOffset, SourceOffset,
                                             ByteCount, answers)} :
                         /\ memory' = r.memory
                         /\ life' = IF r.Crash THEN "crashed" ELSE life
                         /\ last' = [Op |-> "copy", Status |-> r.Status,
                                     Calls |-> UnmapCalls(pd.Ranges
                                                             \o ps.Ranges),
                                     Args |-> [Destination |-> Pair[1],
                                               Source |-> Pair[2],
                                               DestinationOffset |->
                                                   DestinationArgument,
                                               SourceOffset |->
                                                   SourceArgument,
                                               ByteCount |-> ByteCount,
                                               First |-> last.Op # "copy",
                                               Before |-> memory],
                                     Out |-> NoBuffer]
                 /\ IoBuffer' = IF Pair[1] = "C" THEN pd.b
                                ELSE IF Pair[2] = "C" THEN ps.b
                                ELSE IoBuffer
                 /\ peer' = [Name \in DOMAIN peer |->
                                IF Name = Pair[1] THEN pd.b
                                ELSE IF Name = Pair[2] THEN ps.b
                                ELSE peer[Name]]
                 /\ cacheVa' = ps.CacheVa
                 /\ vaReserved' = {v \in vaReserved :
                                      RangeCover(pd.Ranges \o ps.Ranges, v)
                                         = 0}
                                  \cup pd.Reserve \cup ps.Reserve
            /\ physAlloc' = physAlloc \cup pd.Got
            /\ owned' = owned \cup pd.Got
    /\ UNCHANGED <<lockCount, cacheRef>>

\* The copies made: into the peer B from the peer A, and into the descriptor
\* from B.
CopyIntoPeer == CopyIoBufferOf({<<"B", "A">>})
CopyFromPeer == CopyIoBufferOf({<<"C", "B">>})

(***************************************************************************)
(* Specifications.  Spec runs every operation on one descriptor; the       *)
(* others run the operations a group of properties is about.               *)
(***************************************************************************)
Next ==
    \/ AllocateUninitialized
    \/ AllocateNonPaged
    \/ CreateIoBuffer
    \/ CreateIoBufferFromVector
    \/ FreeIoBuffer
    \/ ResetIoBuffer
    \/ AppendCacheEntry
    \/ AppendPhysicalPage
    \/ SetPageCacheEntry
    \/ IncrementOffset
    \/ DecrementOffset
    \/ ExtendIoBuffer
    \/ MapIoBuffer

Spec == Init /\ [][Next]_vars

NextExtend ==
    \/ AllocateUninitialized
    \/ AllocateNonPaged
    \/ FreeIoBuffer
    \/ ResetIoBuffer
    \/ SetPageCacheEntry
    \/ ExtendIoBuffer

SpecExtend == Init /\ [][NextExtend]_vars

NextLock ==
    \/ CreateIoBuffer
    \/ FreeIoBuffer

SpecLock == Init /\ [][NextLock]_vars

NextCache ==
    \/ AllocateUninitialized
    \/ AllocateNonPaged
    \/ AppendCacheEntry
    \/ SetPageCacheEntry
    \/ ResetIoBuffer
    \/ FreeIoBuffer

SpecCache == Init /\ [][NextCache]_vars

NextMap ==
    \/ AllocateUninitialized
    \/ AllocateNonPaged
    \/ ExtendIoBuffer
    \/ AppendCacheEntry
    \/ AppendPhysicalPage
    \/ MapIoBuffer
    \/ FreeIoBuffer

SpecMap == Init /\ [][NextMap]_vars

NextFragments ==
    \/ AllocateUninitialized
    \/ CreateIoBuffer
    \/ CreateIoBufferFromVector
    \/ AppendCacheEntry
    \/ AppendPhysicalPage
    \/ ExtendIoBuffer
    \/ ResetIoBuffer
    \/ FreeIoBuffer

SpecFragments == Init /\ [][NextFragments]_vars

NextCursor ==
    \/ AllocateUninitialized
    \/ FreeIoBuffer
    \/ ResetIoBuffer
    \/ AppendCacheEntry
    \/ AppendPhysicalPage
    \/ IncrementOffset
    \/ DecrementOffset
    \/ ExtendIoBuffer

SpecCursor == Init /\ [][NextCursor]_vars

NextPublish ==
    \/ AllocateUninitialized
    \/ AppendCacheEntry
    \/ MapIoBuffer
    \/ MapSharingIoBuffer

SpecPublish == Init /\ [][NextPublish]_vars

NextInitialize ==
    \/ AllocateUninitialized
    \/ InitializeIoBuffer
    \/ ExtendIoBuffer
    \/ AppendCacheEntry
    \/ AppendPhysicalPage

SpecInitialize == Init /\ [][NextInitialize]_vars

NextNonPaged ==
    \/ AllocateNonPaged
    \/ FreeIoBuffer

SpecNonPaged == Init /\ [][NextNonPaged]_vars

NextPhysical ==
    \/ AllocateUninitialized
    \/ CreateIoBuffer
    \/ ExtendIoBuffer
    \/ AppendPhysicalPage
    \/ IncrementOffset
    \/ GetIoBufferPhysicalAddress

SpecPhysical == Init /\ [][NextPhysical]_vars

\* The descriptors the routines that move data are run on, as the
\* constructors make them: an empty extendable descriptor; an extendable one
\* that was extended by a page and mapped; and non-paged buffers of
\* MaxBufferPages pages, in one fragment (pages in ascending order) and in a
\* fragment a page (descending).
MappedExtendable ==
    MmMapIoBuffer(
        MmpExtendIoBuffer(
            MmAllocateUninitializedIoBuffer(MaxBufferPages * PageSize, FALSE),
            PageSize, FALSE, <<PageSize>>).b,
        [e \in CacheEntries |-> NULL], NULL, FALSE, <<KERNEL_VA_START>>,
        {}).b

DataBuffers ==
    {MmAllocateUninitializedIoBuffer(MaxBufferPages * PageSize, FALSE),
     MappedExtendable}
    \cup {MmAllocateNonPagedIoBuffer(MaxBufferPages * PageSize, 0, FALSE,
                                     KERNEL_VA_START, Plan) :
             Plan \in {[i \in 1 .. MaxBufferPages |-> i * PageSize],
                       [i \in 1 .. MaxBufferPages |->
                           (MaxBufferPages - i + 1) * PageSize]}}

\* The physical and the virtual pages a descriptor's fragments take.
BufferPages(b) ==
    {p \in Pages : \E i \in 0 .. b.FragmentCount - 1 :
        /\ ReadFragment(b, i).PhysicalAddress <= p * PageSize
        /\ p * PageSize < ReadFragment(b, i).PhysicalAddress
                             + ReadFragment(b, i).Size}

BufferVaPages(b) ==
    UNION {RangePages(ReadFragment(b, i).VirtualAddress,
                      ReadFragment(b, i).Size) :
              i \in 0 .. b.FragmentCount - 1}

\* One of those descriptors just constructed, with nothing written yet.
InitData ==
    /\ IoBuffer \in DataBuffers
    /\ life = "live"
    /\ last = [Op |-> "construct", Status |-> STATUS_SUCCESS,
               Calls |-> NoCalls, Args |-> NoArgs, Out |-> NoBuffer]
    /\ physAlloc = BufferPages(IoBuffer)
    /\ lockCount = [p \in Pages |-> 0]
    /\ cacheRef = [e \in CacheEntries |-> BaseReference]
    /\ cacheVa = [e \in CacheEntries |-> NULL]
    /\ vaReserved = BufferVaPages(IoBuffer)
    /\ owned = BufferPages(IoBuffer)
    /\ memory = InitialMemory
    /\ peer = NoPeers

\* The buffer takes pages of the caller, is mapped, has its cursor moved, and
\* is zeroed once: the properties of MmZeroIoBuffer are about one call, and
\* about its repetition on the state the call left.
NextZero ==
    \/ last.Op # "zero" /\ AppendPhysicalPage
    \/ last.Op # "zero" /\ MapIoBuffer
    \/ last.Op # "zero" /\ IncrementOffset
    \/ last.Op # "zero" /\ ZeroIoBuffer

SpecZero == InitData /\ [][NextZero]_vars

\* The same, for one call of MmCopyIoBufferData.
NextCopyData ==
    \/ last.Op # "copy data" /\ AppendPhysicalPage
    \/ last.Op # "copy data" /\ MapIoBuffer
    \/ last.Op # "copy data" /\ IncrementOffset
    \/ last.Op # "copy data" /\ CopyIoBufferData

SpecCopyData == InitData /\ [][NextCopyData]_vars

\* The peers of a copy: non-paged buffers of MaxBufferPages pages starting
\* at page First and mapped at virtual page VaPage, their pages in ascending
\* order (one fragment) or descending (a fragment a page), with the cursor
\* at the start or one byte in.
PeerBuffers(First, VaPage) ==
    {MmIoBufferIncrementOffset(
         MmAllocateNonPagedIoBuffer(MaxBufferPages * PageSize, 0, FALSE,
                                    VaPage * PageSize, Plan),
         Cursor) :
        Plan \in {[i \in 1 .. MaxBufferPages |-> (First + i - 1) * PageSize],
                  [i \in 1 .. MaxBufferPages |->
                      (First + MaxBufferPages - i) * PageSize]},
        Cursor \in 0 .. 1}

\* A mapped descriptor and two peers just constructed, on pages of their
\* own.
InitCopy ==
    /\ IoBuffer \in DataBuffers
    /\ IoBuffer.FragmentCount # 0
    /\ life = "live"
    /\ last = [Op |-> "construct", Status |-> STATUS_SUCCESS,
               Calls |-> NoCalls, Args |-> NoArgs, Out |-> NoBuffer]
    /\ peer \in [A : PeerBuffers(MaxBufferPages + 1, 8 + MaxBufferPages),
                 B : PeerBuffers(2 * MaxBufferPages + 1,
                                 8 + 2 * MaxBufferPages)]
    /\ physAlloc = BufferPages(IoBuffer) \cup BufferPages(peer.A)
                      \cup BufferPages(peer.B)
    /\ lockCount = [p \in Pages |-> 0]
    /\ cacheRef = [e \in CacheEntries |-> BaseReference]
    /\ cacheVa = [e \in CacheEntries |-> NULL]
    /\ vaReserved = BufferVaPages(IoBuffer) \cup BufferVaPages(peer.A)
                       \cup BufferVaPages(peer.B)
    /\ owned = BufferPages(IoBuffer)
    /\ memory = InitialMemory

\* The descriptor has its cursor moved; then bytes are copied from A to B,
\* and then from B to the descriptor.
NextCopy ==
    \/ last.Op # "copy" /\ IncrementOffset
    \/ last.Op # "copy" /\ CopyIntoPeer
    \/ last.Op = "copy" /\ last.Args.First /\ CopyFromPeer

SpecCopy == InitCopy /\ [][NextCopy]_vars

NextCoalesce ==
    \/ AllocateUninitializedTable
    \/ ExtendIoBuffer
    \/ MapIoBuffer

SpecCoalesce == Init /\ [][NextCoalesce]_vars

\* Buffers of up to MaxTablePages fragments, some mapped by their caller and
\* some not, and MmMapIoBuffer on them: the buffer starts empty or extended
\* by one page, and takes the caller's pages.
RunBuffers ==
    {MmAllocateUninitializedIoBuffer(MaxTablePages * PageSize, FALSE),
     MmpExtendIoBuffer(
         MmAllocateUninitializedIoBuffer(MaxTablePages * PageSize, FALSE),
         PageSize, FALSE, <<PageSize>>).b}

InitRuns ==
    /\ IoBuffer \in RunBuffers
    /\ life = "live"
    /\ last = [Op |-> "construct", Status |-> STATUS_SUCCESS,
               Calls |-> NoCalls, Args |-> NoArgs, Out |-> NoBuffer]
    /\ physAlloc = BufferPages(IoBuffer)
    /\ lockCount = [p \in Pages |-> 0]
    /\ cacheRef = [e \in CacheEntries |-> BaseReference]
    /\ cacheVa = [e \in CacheEntries |-> NULL]
    /\ vaReserved = {}
    /\ owned = BufferPages(IoBuffer)
    /\ memory = InitialMemory
    /\ peer = NoPeers

NextMapRuns ==
    \/ AppendPhysicalPage
    \/ MapTableIoBuffer

SpecMapRuns == InitRuns /\ [][NextMapRuns]_vars

\* Cache-backed buffers of up to MaxTablePages pages: cache entries and
\* pages of the caller are appended, the buffer is mapped, and a free, a
\* reset or a contiguous mapping unmaps it.  The release is the end of the
\* buffer's history here.
NextUnmap ==
    \/ AllocateUninitializedTable
    \/ last.Op # "release" /\ AppendCacheEntry
    \/ last.Op # "release" /\ AppendPhysicalPage
    \/ last.Op # "release" /\ MapTableIoBuffer
    \/ last.Op # "release" /\ ResetIoBuffer
    \/ last.Op # "release" /\ FreeIoBuffer

SpecUnmap == Init /\ [][NextUnmap]_vars

\* One call of MmZeroIoBuffer or of MmCopyIoBufferData for a range whose
\* length is near the largest a UINTN holds.
NextPastEnd ==
    \/ last.Op \notin {"zero", "copy data"} /\ IncrementOffset
    \/ last.Op \notin {"zero", "copy data"} /\ ZeroLongRange
    \/ last.Op \notin {"zero", "copy data"} /\ CopyLongData

SpecPastEnd == InitData /\ [][NextPastEnd]_vars

\* Buffers for cached I/O: cache entries are appended, the cursor moves, and
\* the buffer is validated for a transfer.
NextCachedIo ==
    \/ AllocateUninitialized
    \/ AppendCacheEntry
    \/ AppendPhysicalPage
    \/ IncrementOffset
    \/ ValidateIoBufferForCachedIo

SpecCachedIo == Init /\ [][NextCachedIo]_vars

(***************************************************************************)
(* The page loop of MmCreateIoBuffer one iteration at a time.  While the   *)
(* loop runs, last.Op is "create page" and last.Args holds the routine's   *)
(* locals; IoBuffer is the descriptor being filled.  Retries counts the    *)
(* STATUS_TRY_AGAIN answers for the current page (it stops counting at     *)
(* MaxRetries), Retried tells whether there was any.                       *)
(***************************************************************************)
\* The descriptor when the loop is entered.
CreateLoopEntry(Buffer, SizeInBytes, NonPaged, KernelMode) ==
    LET PageCount == CreatePageCount(Buffer, SizeInBytes)
    IN [ZeroedIoBuffer(PageCount, PageCount, TRUE) EXCEPT
           !.TotalSize = SizeInBytes,
           !.Flags = CreateFlags(NonPaged, KernelMode)]

\* The end of the fragment with the alignment taken of the address itself.
CreateNextAddressOfAligned(CurrentAddress, EndAddress) ==
    LET Aligned == ALIGN_RANGE_UP(CurrentAddress, PageSize)
    IN IF Aligned > EndAddress THEN EndAddress ELSE Aligned

\* The end of the fragment that starts at CurrentAddress: the next page
\* boundary, clipped to the end of the range.
CreateNextAddress(CurrentAddress, EndAddress) ==
    LET Aligned == ALIGN_RANGE_UP(CurrentAddress + 1, PageSize)
    IN IF Aligned > EndAddress THEN EndAddress ELSE Aligned

\* The descriptor and the locals after the iteration that got Outcome for
\* its page.
CreateLockPageStep(b, c, Outcome) ==
    LET PhysicalAddress == CreatePhysicalAddress(Outcome, c.CurrentAddress)
        b1 == IF Outcome.Kind = "cache"
              THEN [b EXCEPT
                       !.PageCacheEntries[c.PageIndex] = Outcome.Entry,
                       !.Flags = @ \cup {IO_BUFFER_FLAG_PAGE_CACHE_BACKED}]
              ELSE b
        FragmentSize == CreateNextAddress(c.CurrentAddress, c.EndAddress)
                            - c.CurrentAddress
        Merge == /\ b1.FragmentCount # 0
                 /\ ReadFragment(b1, c.FragmentIndex - 1).PhysicalAddress
                       + ReadFragment(b1, c.FragmentIndex - 1).Size
                       = PhysicalAddress
    IN [b |-> IF Merge
              THEN WriteFragment(
                       b1, c.FragmentIndex - 1,
                       [ReadFragment(b1, c.FragmentIndex - 1) EXCEPT
                           !.Size = @ + FragmentSize])
              ELSE [WriteFragment(b1, c.FragmentIndex,
                                  [VirtualAddress |-> c.CurrentAddress,
                                   PhysicalAddress |-> PhysicalAddress,
                                   Size |-> FragmentSize])
                       EXCEPT !.FragmentCount = @ + 1],
        c |-> [c EXCEPT
                  !.CurrentAddress = @ + FragmentSize,
                  !.FragmentIndex = IF Merge THEN @ ELSE @ + 1,
                  !.PageIndex = @ + 1,
                  !.BytesLocked = @ + FragmentSize,
                  !.Retries = 0]]

\* The routine is in its page loop.
CreateLoopRunning ==
    /\ life = "none"
    /\ last.Op = "create page"

\* The loop is entered by a caller with a range to lock.
InitCreateLoop ==
    /\ \E KernelMode \in BOOLEAN, NonPaged \in BOOLEAN :
       \E Range \in {r \in CreateRanges(KernelMode) :
                        KernelMode \/ r[1] + r[2] <= KERNEL_VA_START} :
          /\ IoBuffer = CreateLoopEntry(Range[1], Range[2], NonPaged,
                                        KernelMode)
          /\ last = [Op |-> "create page", Status |-> STATUS_SUCCESS,
                     Calls |-> NoCalls,
                     Args |-> [CurrentAddress |-> Range[1],
                               EndAddress |-> Range[1] + Range[2],
                               FragmentIndex |-> 0,
                               PageIndex |-> 0,
                               BytesLocked |-> 0,
                               KernelMode |-> KernelMode,
                               Retries |-> 0,
                               Retried |-> FALSE],
                     Out |-> NoBuffer]
    /\ life = "none"
    /\ physAlloc = {}
    /\ lockCount = [p \in Pages |-> 0]
    /\ cacheRef = [e \in CacheEntries |-> BaseReference]
    /\ cacheVa \in {[e \in CacheEntries |-> NULL],
                    [e \in CacheEntries |->
                        IF e = 3 THEN NULL
                        ELSE PageCacheEntryVaPage(e) * PageSize]}
    /\ vaReserved = {}
    /\ owned = {}
    /\ memory = InitialMemory
    /\ peer = NoPeers

\* The failure exit: the locked flag is set when bytes were locked, and the
\* descriptor is freed.
CreateLoopExit(Status) ==
    \E Garbage \in GarbageChoices(IoBuffer) :
    \E rel \in {MmFreeIoBuffer(CreateLockedFlag(IoBuffer,
                                                last.Args.BytesLocked),
                               cacheVa, Garbage)} :
    \E after \in {EnvAfterRelease(Env, rel)} :
       /\ IoBuffer' = NoBuffer
       /\ life' = "freed"
       /\ physAlloc' = after.physAlloc
       /\ lockCount' = after.lockCount
       /\ cacheRef' = after.cacheRef
       /\ vaReserved' = after.vaReserved
       /\ last' = [Op |-> "construct", Status |-> Status,
                   Calls |-> ReleaseCalls(rel),
                   Args |-> [Retried |-> last.Args.Retried],
                   Out |-> NoBuffer]

\* MmpPageIn answers STATUS_TRY_AGAIN: the loop goes round again for the same
\* page.
CreateRetryPage ==
    /\ CreateLoopRunning
    /\ last.Args.CurrentAddress < last.Args.EndAddress
    /\ ~last.Args.KernelMode
    /\ IF CreateTryAgain(STATUS_TRY_AGAIN)
       THEN /\ last' = [last EXCEPT
                           !.Status = STATUS_TRY_AGAIN,
                           !.Args.Retries = Smaller(@ + 1, MaxRetries),
                           !.Args.Retried = TRUE]
            /\ UNCHANGED <<IoBuffer, life, physAlloc, lockCount, cacheRef,
                           vaReserved>>
       ELSE CreateLoopExit(STATUS_TRY_AGAIN)
    /\ UNCHANGED <<cacheVa, owned, memory, peer>>

\* MmpPageIn fails, or there is neither a section nor a page.
CreateFailPage ==
    /\ CreateLoopRunning
    /\ last.Args.CurrentAddress < last.Args.EndAddress
    /\ CreateLoopExit(IF last.Args.KernelMode THEN STATUS_INVALID_PARAMETER
                      ELSE STATUS_INSUFFICIENT_RESOURCES)
    /\ UNCHANGED <<cacheVa, owned, memory, peer>>

\* The page is there: it becomes a fragment, or a part of the last one.
CreateLockPage ==
    /\ CreateLoopRunning
    /\ last.Args.CurrentAddress < last.Args.EndAddress
    /\ \E Outcome \in {o \in (IF last.Args.KernelMode THEN KernelOutcomes
                              ELSE UserOutcomes) :
                          /\ ~Failed(o)
                          /\ o.Retries = 0
                          /\ o.Page \notin BufferPages(IoBuffer)} :
       \E r \in {CreateLockPageStep(IoBuffer, last.Args, Outcome)},
          env \in {EnvAfterPageIn(Env, <<Outcome>>)} :
          /\ IoBuffer' = r.b
          /\ last' = [last EXCEPT !.Status = STATUS_SUCCESS, !.Args = r.c]
          /\ cacheRef' = env.cacheRef
          /\ lockCount' = env.lockCount
    /\ UNCHANGED <<life, physAlloc, cacheVa, vaReserved, owned, memory, peer>>

\* The end address is reached: the routine returns the descriptor.
CreateFinish ==
    /\ CreateLoopRunning
    /\ last.Args.CurrentAddress >= last.Args.EndAddress
    /\ IoBuffer' = CreateLockedFlag(IoBuffer, last.Args.BytesLocked)
    /\ life' = "live"
    /\ DidCall("construct", STATUS_SUCCESS,
               [Retried |-> last.Args.Retried], NoBuffer)
    /\ UNCHANGED <<physAlloc, lockCount, cacheRef, cacheVa, vaReserved,
                   owned, memory, peer>>

NextCreateLoop ==
    \/ CreateRetryPage
    \/ CreateFailPage
    \/ CreateLockPage
    \/ CreateFinish

\* The thread in the routine keeps running, and MmpPageIn does not answer
\* STATUS_TRY_AGAIN for ever: it gives another answer in the end.
SpecCreateLoop ==
    /\ InitCreateLoop
    /\ [][NextCreateLoop]_vars
    /\ WF_vars(CreateLockPage \/ CreateFailPage)
    /\ WF_vars(CreateFinish)

NextValidate ==
    \/ AllocateUninitialized
    \/ AllocateNonPaged
    \/ IncrementOffset
    \/ ValidateIoBuffer

SpecValidate == Init /\ [][NextValidate]_vars

NextValidateUser ==
    \/ CreateIoBufferFromVector
    \/ ValidateIoBuffer

SpecValidateUser == Init /\ [][NextValidateUser]_vars

(***************************************************************************)
(* Properties.                                                             *)
(***************************************************************************)
RECURSIVE SumOver(_, _)
SumOver(f, S) ==
    IF S = {} THEN 0
    ELSE LET x == CHOOSE y \in S : TRUE
         IN f[x] + SumOver(f, S \ {x})

\* The references the buffer holds, going by the cache's counts.
HeldReferences(CacheRef) ==
    SumOver([e \in CacheEntries |-> CacheRef[e] - BaseReference],
            CacheEntries)

\* A state in which every page of a locked user buffer holds one cache entry
\* reference or one page lock.
OneHoldPerPage ==
    /\ \A e \in CacheEntries :
          cacheRef[e] - BaseReference =
              Cardinality({i \in DOMAIN IoBuffer.PageCacheEntries :
                              IoBuffer.PageCacheEntries[i] = e})
    /\ \A p \in Pages : lockCount[p] <= 1
    /\ HeldReferences(cacheRef) + SumOver(lockCount, Pages)
          = IoBuffer.PageCount

\* C1: a user-mode buffer that MmCreateIoBuffer built with LockMemory set
\* holds one cache entry reference or one page lock for each page it
\* describes, and once MmFreeIoBuffer has run none of them is left: no page
\* is locked and every cache entry's count is what it was before the create.
C1_LockedPagesReleased ==
    [][(/\ life = "live"
        /\ life' = "freed"
        /\ IO_BUFFER_FLAG_USER_MODE \in IoBuffer.Flags
        /\ IoBuffer.PceAllocated)
       => /\ OneHoldPerPage
          /\ \A e \in CacheEntries : cacheRef'[e] = BaseReference
          /\ \A p \in Pages : lockCount'[p] = 0]_vars

\* C2: when MmFreeIoBuffer or MmResetIoBuffer releases a buffer, every page
\* the subsystem allocated for it (MmAllocateNonPagedIoBuffer, or
\* MmpExtendIoBuffer whether it then succeeded or failed part-way) is handled
\* once: freed once when its page slot holds no cache entry, and otherwise
\* not freed, the entry's reference being released instead.
C2_OwnedPagesHandledOnce ==
    [][(life = "live" /\ last'.Op = "release")
       => \A p \in owned :
             IF p \in SlottedPages(IoBuffer, owned)
             THEN /\ last'.Calls.Free[p] = 0
                  /\ last'.Calls.Release[
                         IoBuffer.PageCacheEntries[PageSlot(IoBuffer, p, 0, 0)]]
                        = 1
             ELSE last'.Calls.Free[p] = 1]_vars

\* The page cache entry slots of the buffer that hold Entry.
SlotCount(b, Entry) ==
    Cardinality({i \in DOMAIN b.PageCacheEntries :
                    b.PageCacheEntries[i] = Entry})

\* C3: over MmIoBufferAppendPage with a cache entry,
\* MmSetIoBufferPageCacheEntry, MmResetIoBuffer and MmFreeIoBuffer the buffer
\* holds one reference per non-empty page cache entry slot, and a release
\* drops each of them once: every entry is released as many times as it has
\* slots, no more.
C3_OneReferencePerSlot ==
    [][/\ life' = "live" =>
             \A e \in CacheEntries :
                cacheRef'[e] - BaseReference = SlotCount(IoBuffer', e)
       /\ (life = "live" /\ last'.Op = "release") =>
             \A e \in CacheEntries :
                last'.Calls.Release[e] = SlotCount(IoBuffer, e)]_vars

\* Two appended cache entries have been released by a reset.
C3_Witness ==
    /\ life = "live"
    /\ last.Op = "release"
    /\ last.Calls.Release[1] = 1
    /\ last.Calls.Release[2] = 1

\* C4: every virtual range the subsystem reserved for a buffer
\* (MmAllocateNonPagedIoBuffer, MmMapIoBuffer) is released once by the time
\* MmFreeIoBuffer returns, whatever extensions, appended pages and mappings
\* came between: the free unmaps every page still reserved that no cache
\* entry has taken over, and no operation unmaps a page of the allocator's
\* that is not reserved at the time, or unmaps it twice.
C4_RangesReleasedOnce ==
    [][/\ \A v \in VaPool :
             last'.Calls.Unmap[v] <= (IF v \in vaReserved THEN 1 ELSE 0)
       /\ (life = "live" /\ life' = "freed") =>
             \A v \in vaReserved \ CacheHeldVa(cacheVa) :
                last'.Calls.Unmap[v] = 1]_vars

\* C5: whenever a descriptor is live (after any constructor and after any
\* append, extend, map or reset) its TotalSize is the sum of the sizes of its
\* FragmentCount fragments.
C5_TotalSizeIsSumOfFragments ==
    life = "live" =>
        IoBuffer.TotalSize = SumFragmentSizes(IoBuffer, IoBuffer.FragmentCount)

\* C6: a call of extend with size k on an extendable descriptor grows
\* TotalSize by the page count of k times the page size when it returns
\* success, and leaves TotalSize as it was when it returns an error.
C6_ExtendTotalSize ==
    [][(life = "live" /\ last'.Op = "extend")
       => \A c \in ExtendCalls(IoBuffer, AllocPages \ physAlloc) :
             LET r == MmpExtendIoBuffer(IoBuffer, c.Size,
                                        c.PhysicallyContiguous, c.Plan)
             IN (IoBuffer' = r.b /\ last'.Status = r.Status)
                => IoBuffer'.TotalSize =
                      IF last'.Status = STATUS_SUCCESS
                      THEN IoBuffer.TotalSize
                              + ExtendPageCount(c.Size) * PageSize
                      ELSE IoBuffer.TotalSize]_vars

\* C7: in every state of a live descriptor the VIRTUALLY_CONTIGUOUS flag is
\* set only if the MAPPED flag is set.
C7_ContiguousImpliesMapped ==
    (life = "live" /\ IO_BUFFER_FLAG_VIRTUALLY_CONTIGUOUS \in IoBuffer.Flags)
        => IO_BUFFER_FLAG_MAPPED \in IoBuffer.Flags

\* C8: in every state of a live descriptor with at least one fragment, the
\* MAPPED flag is set exactly when every fragment has a virtual address.
C8_MappedIffAllFragmentsMapped ==
    (life = "live" /\ IoBuffer.FragmentCount >= 1)
        => (IO_BUFFER_FLAG_MAPPED \in IoBuffer.Flags
               <=> \A i \in 0 .. IoBuffer.FragmentCount - 1 :
                      ReadFragment(IoBuffer, i).VirtualAddress # NULL)

C10_FragmentTableBound ==
    /\ IoBuffer.FragmentCount <= IoBuffer.MaxFragmentCount
    /\ ~IoBuffer.Overrun

\* An extension has just filled the last free entries of a table of more
\* than one entry.
C10_Witness ==
    /\ life = "live"
    /\ last.Op = "extend"
    /\ last.Status = STATUS_SUCCESS
    /\ IoBuffer.MaxFragmentCount >= 2
    /\ IoBuffer.FragmentCount = IoBuffer.MaxFragmentCount

\* Fragments i and i + 1 describe memory that is adjacent both physically and
\* virtually (both unmapped, or adjacent virtual addresses).
FragmentsContiguous(b, i) ==
    LET This == ReadFragment(b, i)
        Following == ReadFragment(b, i + 1)
    IN /\ This.PhysicalAddress + This.Size = Following.PhysicalAddress
       /\ \/ This.VirtualAddress = NULL /\ Following.VirtualAddress = NULL
          \/ This.VirtualAddress + This.Size = Following.VirtualAddress

\* C11: after a constructor, a successful extension or an appended page, no
\* two neighbouring fragments are both physically and virtually contiguous.
C11_CoalescingLaw ==
    (/\ life = "live"
     /\ last.Status = STATUS_SUCCESS
     /\ last.Op \in {"construct", "extend", "append"})
        => \A i \in 0 .. IoBuffer.FragmentCount - 2 :
              ~FragmentsContiguous(IoBuffer, i)

\* The buffer *IoBuffer points to after MmValidateIoBuffer returned.
ValidatedBuffer == IF last.Out = NoBuffer THEN IoBuffer ELSE last.Out

\* The part of fragment i that lies in the bytes Start .. End - 1 of b: its
\* first and last-plus-one buffer offsets and its first physical address.
FragmentWindow(b, i, Start, End) ==
    LET First == SumFragmentSizes(b, i)
        Low == Max(Start, First)
        High == IF End < SumFragmentSizes(b, i + 1) THEN End
                ELSE SumFragmentSizes(b, i + 1)
    IN [Low |-> Low, High |-> High,
        PhysicalAddress |-> ReadFragment(b, i).PhysicalAddress + (Low - First)]

InvolvedFragments(b, Start, End) ==
    {i \in 0 .. b.FragmentCount - 1 :
        FragmentWindow(b, i, Start, End).Low
            < FragmentWindow(b, i, Start, End).High}

\* What a device needs of the bytes Start .. End - 1 of b.
MeetsConstraints(b, a, Start, End) ==
    /\ End <= SumFragmentSizes(b, b.FragmentCount)
    /\ \A i \in InvolvedFragments(b, Start, End) :
          LET w == FragmentWindow(b, i, Start, End)
          IN /\ w.PhysicalAddress >= a.Min
             /\ w.PhysicalAddress + (w.High - w.Low) - 1 <= a.Max
             /\ IS_ALIGNED(w.PhysicalAddress, a.Alignment)
             /\ (a.PhysicallyContiguous
                    /\ i + 1 \in InvolvedFragments(b, Start, End))
                   => w.PhysicalAddress + (w.High - w.Low)
                         = FragmentWindow(b, i + 1, Start, End).PhysicalAddress

\* C12: when MmValidateIoBuffer returns success, the buffer it leaves in
\* *IoBuffer describes SizeInBytes bytes from its cursor, and those bytes lie
\* within the physical range asked for, start aligned in every fragment and,
\* when asked, are physically contiguous.
C12_ValidatedBufferMeetsConstraints ==
    (last.Op = "validate" /\ last.Status = STATUS_SUCCESS)
        => MeetsConstraints(ValidatedBuffer, last.Args,
                            ValidatedBuffer.CurrentOffset,
                            ValidatedBuffer.CurrentOffset
                                + last.Args.SizeInBytes)

\* A step of MmValidateIoBuffer on the live buffer.
ValidateStep ==
    /\ life = "live"
    /\ last'.Op = "validate"
    /\ last'.Args.Buffer # NULL

\* The constraints on alignment, contiguity and size, without the range of
\* physical addresses.
WithoutRange(a) == [a EXCEPT !.Min = 0, !.Max = MAX_ULONGLONG]

C14_TooSmallRejected ==
    [][last'.Op = "validate"
          => /\ last'.Args.Buffer = NULL
                   => last'.Status = STATUS_INVALID_PARAMETER
             /\ (/\ ValidateStep
                 /\ IO_BUFFER_FLAG_EXTENDABLE \notin IoBuffer.Flags
                 /\ IoBuffer.CurrentOffset + last'.Args.SizeInBytes
                       > IoBuffer.TotalSize)
                   => /\ last'.Status = STATUS_BUFFER_TOO_SMALL
                      /\ last'.Out = NoBuffer
                      /\ IoBuffer' = IoBuffer
                      /\ life' = "live"
                      /\ physAlloc' = physAlloc
                      /\ vaReserved' = vaReserved]_vars

C14_Witness ==
    /\ life = "live"
    /\ last.Op = "validate"
    /\ last.Status = STATUS_BUFFER_TOO_SMALL
    /\ IO_BUFFER_FLAG_EXTENDABLE \notin IoBuffer.Flags
    /\ IoBuffer.CurrentOffset > 0
    /\ IoBuffer.CurrentOffset + last.Args.SizeInBytes > IoBuffer.TotalSize
    /\ last.Args.SizeInBytes <= IoBuffer.TotalSize

\* C15: MmpExtendIoBuffer returns STATUS_BUFFER_TOO_SMALL exactly when the
\* pages asked for outnumber the free entries of the fragment table, and it
\* then allocates no page and leaves the buffer as it was, whatever the page
\* allocator would have answered.
C15_ExtendTooSmall ==
    [][(life = "live" /\ last'.Op = "extend")
       => \A c \in ExtendCalls(IoBuffer, AllocPages \ physAlloc) :
             LET r == MmpExtendIoBuffer(IoBuffer, c.Size,
                                        c.PhysicallyContiguous, c.Plan)
                 Wanted == (c.Size + PageSize - 1) \div PageSize
                 Available == IoBuffer.MaxFragmentCount
                                 - IoBuffer.FragmentCount
             IN (IoBuffer' = r.b /\ last'.Status = r.Status)
                => /\ last'.Status = STATUS_BUFFER_TOO_SMALL <=> Wanted > Available
                   /\ Wanted > Available => /\ IoBuffer' = IoBuffer
                                             /\ physAlloc' = physAlloc
                                             /\ owned' = owned]_vars

C15_Witness ==
    /\ life = "live"
    /\ last.Op = "extend"
    /\ last.Status = STATUS_BUFFER_TOO_SMALL
    /\ IoBuffer.FragmentCount >= 1
    /\ IoBuffer.MaxFragmentCount - IoBuffer.FragmentCount >= 1
    /\ AllocPages \ physAlloc # {}

\* C16: when MmCreateIoBuffer fails while locking the pages of the range, it
\* returns no buffer, and every page lock and cache entry reference it had
\* taken for the pages before the failure has been released.
C16_FailedCreateReleasesLocks ==
    [][(/\ life = "none"
        /\ last'.Op = "construct"
        /\ last'.Status \in {STATUS_INSUFFICIENT_RESOURCES,
                             STATUS_INVALID_PARAMETER})
       => /\ life' = "freed"
          /\ IoBuffer' = NoBuffer
          /\ \A e \in CacheEntries : cacheRef'[e] = cacheRef[e]
          /\ \A p \in Pages : lockCount'[p] = lockCount[p]]_vars

\* The same answers of the pager with every STATUS_TRY_AGAIN left out.
WithoutRetries(Outcomes) ==
    [i \in DOMAIN Outcomes |-> [Outcomes[i] EXCEPT !.Retries = 0]]

\* C17: MmCreateIoBuffer with LockMemory set never returns STATUS_TRY_AGAIN;
\* a STATUS_TRY_AGAIN from the pager is absorbed by asking for the same page
\* again with the page index, the current address, the fragment table and the
\* bytes locked as they were, so the call ends as the call without that
\* answer ends.
C17_TryAgainAbsorbed ==
    /\ [][(/\ life = "none"
            /\ last'.Op = "construct"
            /\ last'.Args.Retried)
           => last'.Status # STATUS_TRY_AGAIN]_vars
    /\ [](life = "none" =>
            \A Range \in CreateRanges(FALSE), NonPaged \in BOOLEAN :
               Range[1] + Range[2] <= KERNEL_VA_START =>
                  \A Outcomes \in CreateOutcomes(
                          CreatePageCount(Range[1], Range[2]), FALSE) :
                      MmCreateIoBuffer(Range[1], Range[2], TRUE, NonPaged,
                                       FALSE, Outcomes)
                        = MmCreateIoBuffer(Range[1], Range[2], TRUE, NonPaged,
                                           FALSE, WithoutRetries(Outcomes)))

C17_Witness ==
    /\ life = "live"
    /\ last.Op = "construct"
    /\ last.Status = STATUS_SUCCESS
    /\ last.Args.Retried
    /\ IO_BUFFER_FLAG_MEMORY_LOCKED \in IoBuffer.Flags
    /\ IoBuffer.FragmentCount = 2

AbsolutePhysicalAddress(b, Offset) ==
    MmGetIoBufferPhysicalAddress([b EXCEPT !.CurrentOffset = 0], Offset)

CacheEntriesMatch(b) ==
    \A i \in DOMAIN b.PageCacheEntries :
        b.PageCacheEntries[i] # NULL =>
            IoGetPageCacheEntryPhysicalAddress(b.PageCacheEntries[i])
                = AbsolutePhysicalAddress(b, i * PageSize)

\* C19: in a page cache backed buffer every page cache entry in slot i of
\* PageCacheEntries has the physical address the buffer has at byte offset
\* i * PageSize from its start; this holds after MmIoBufferAppendPage,
\* MmSetIoBufferPageCacheEntry and MmCreateIoBuffer with LockMemory set,
\* also for a range that does not start on a page boundary.
C19_CacheEntriesMatchPhysicalAddresses ==
    (/\ life = "live"
     /\ IO_BUFFER_FLAG_PAGE_CACHE_BACKED \in IoBuffer.Flags)
        => CacheEntriesMatch(IoBuffer)

\* C20: a buffer with the EXTENDABLE flag has a TotalSize that is a multiple
\* of the page size, in every state reached from
\* MmAllocateUninitializedIoBuffer or from MmInitializeIoBuffer with
\* CacheBacked set by MmpExtendIoBuffer and MmIoBufferAppendPage.
C20_ExtendableTotalSizeAligned ==
    (/\ life = "live"
     /\ IO_BUFFER_FLAG_EXTENDABLE \in IoBuffer.Flags)
        => IS_ALIGNED(IoBuffer.TotalSize, PageSize)

\* C21: a buffer with a PageCacheEntries table never describes more pages
\* than PageCount, whatever MmpExtendIoBuffer and MmIoBufferAppendPage calls
\* were made, so no walk over its pages reads PageCacheEntries at or beyond
\* PageCount.
C21_DescribedPagesWithinPageCount ==
    (/\ life = "live"
     /\ IoBuffer.PceAllocated)
        => (IoBuffer.TotalSize + PageSize - 1) \div PageSize
               <= IoBuffer.PageCount

\* The fragments the vectors describe: the vectors of no length dropped, and
\* each vector that starts where the fragment before it ends joined to it.
RECURSIVE MergedVectors(_, _)
MergedVectors(IoVector, Count) ==
    IF Count = 0 THEN <<>>
    ELSE LET Before == MergedVectors(IoVector, Count - 1)
             Vector == IoVector[Count]
             Previous == Before[Len(Before)]
         IN IF Vector.Length = 0 THEN Before
            ELSE IF /\ Len(Before) # 0
                    /\ Previous.VirtualAddress + Previous.Size = Vector.Data
            THEN [Before EXCEPT ![Len(Before)].Size = @ + Vector.Length]
            ELSE Append(Before, [VirtualAddress |-> Vector.Data,
                                 PhysicalAddress |-> INVALID_PHYSICAL_ADDRESS,
                                 Size |-> Vector.Length])

RECURSIVE SumOfLengths(_, _)
SumOfLengths(IoVector, Count) ==
    IF Count = 0 THEN 0
    ELSE SumOfLengths(IoVector, Count - 1) + IoVector[Count].Length

VectorFragmentsMatch(b, IoVector) ==
    LET Merged == MergedVectors(IoVector, Len(IoVector))
    IN /\ b.FragmentCount = Len(Merged)
       /\ b.FragmentCount <= Len(IoVector)
       /\ \A i \in 1 .. Len(Merged) : ReadFragment(b, i - 1) = Merged[i]

\* C25: MmCreateIoBufferFromVector on valid vectors gives the fragments that
\* are left when the vectors of no length are dropped and adjacent vectors
\* are joined, a TotalSize that is the sum of all the lengths, and no more
\* fragments than vectors.
C25_VectorFragments ==
    (/\ life = "live"
     /\ last.Op = "construct"
     /\ last.Status = STATUS_SUCCESS)
        => /\ VectorFragmentsMatch(IoBuffer, last.Args.IoVector)
           /\ IoBuffer.TotalSize
                 = SumOfLengths(last.Args.IoVector, Len(last.Args.IoVector))

\* A vector whose range is not wholly below the kernel's addresses, in
\* unbounded arithmetic.
VectorOutsideUserSpace(Vector) ==
    \/ Vector.Data >= KERNEL_VA_START
    \/ Vector.Data + Vector.Length > KERNEL_VA_START

\* C26: MmCreateIoBufferFromVector returns STATUS_INVALID_PARAMETER when the
\* vector count is 0 or above MAX_IO_VECTOR_COUNT, and
\* STATUS_ACCESS_VIOLATION when a vector, one of no length included, starts
\* at or above KERNEL_VA_START or reaches past it or wraps (unless the pool
\* has run out); on every error it returns no buffer and has freed every
\* allocation it made.
C26_VectorErrors ==
    [][(life = "none" /\ last'.Op = "construct")
       => LET IoVector == last'.Args.IoVector
              BadCount == Len(IoVector) = 0
                             \/ Len(IoVector) > MAX_IO_VECTOR_COUNT
          IN /\ BadCount => last'.Status = STATUS_INVALID_PARAMETER
             /\ (/\ ~BadCount
                 /\ \E i \in 1 .. Len(IoVector) :
                        VectorOutsideUserSpace(IoVector[i])
                 /\ last'.Status # STATUS_INSUFFICIENT_RESOURCES)
                    => last'.Status = STATUS_ACCESS_VIOLATION
             /\ last'.Status # STATUS_SUCCESS
                    => /\ life' = "freed"
                       /\ IoBuffer' = NoBuffer
                       /\ last'.Args.Freed = last'.Args.Allocated
                       /\ physAlloc' = physAlloc
                       /\ vaReserved' = vaReserved
                       /\ lockCount' = lockCount
                       /\ cacheRef' = cacheRef]_vars

\* The second of two vectors has no length and starts at KERNEL_VA_START; the
\* copy of the vectors and the descriptor were allocated and freed.
C26_Witness ==
    /\ life = "freed"
    /\ last.Op = "construct"
    /\ last.Status = STATUS_ACCESS_VIOLATION
    /\ Len(last.Args.IoVector) = 2
    /\ last.Args.IoVector[1].Length # 0
    /\ ~VectorOutsideUserSpace(last.Args.IoVector[1])
    /\ last.Args.IoVector[2] = [Data |-> KERNEL_VA_START, Length |-> 0]
    /\ last.Args.Allocated = 2
    /\ last.Args.Freed = 2

\* The size of the request rounded up to the alignment, which is at least a
\* page.
RoundedSize(a) ==
    LET Alignment == IF a.Alignment < PageSize THEN PageSize
                     ELSE ALIGN_RANGE_UP(a.Alignment, PageSize)
    IN ALIGN_RANGE_UP(a.Size, Alignment)

\* The fragments are the maximal runs of physically adjacent pages of the
\* range at a.VirtualAddress, whose page i has the physical address
\* a.Plan[i + 1].
MaximalRuns(b, a) ==
    /\ b.FragmentCount >= 1
    /\ ReadFragment(b, 0).VirtualAddress = a.VirtualAddress
    /\ \A i \in 0 .. b.FragmentCount - 1 :
          /\ ReadFragment(b, i).Size > 0
          /\ IS_ALIGNED(ReadFragment(b, i).Size, PageSize)
    /\ \A i \in 0 .. b.FragmentCount - 2 :
          /\ ReadFragment(b, i + 1).VirtualAddress
                = ReadFragment(b, i).VirtualAddress + ReadFragment(b, i).Size
          /\ ReadFragment(b, i + 1).PhysicalAddress
                # ReadFragment(b, i).PhysicalAddress + ReadFragment(b, i).Size
    /\ SumFragmentSizes(b, b.FragmentCount) = b.TotalSize
    /\ \A k \in 0 .. (b.TotalSize \div PageSize) - 1 :
          AbsolutePhysicalAddress(b, k * PageSize) = a.Plan[k + 1]

\* C27: MmAllocateNonPagedIoBuffer without PhysicallyContiguous gives the
\* maximal runs of physically adjacent pages, in the order of the virtual
\* addresses, as fragments; with PhysicallyContiguous it gives one fragment
\* of the whole size; TotalSize is the size rounded up to the alignment and
\* the flags are MEMORY_OWNED, MEMORY_LOCKED, MAPPED, VIRTUALLY_CONTIGUOUS,
\* UNMAP_ON_FREE and NON_PAGED.
C27_NonPagedFragments ==
    (/\ life = "live"
     /\ last.Op = "construct"
     /\ last.Status = STATUS_SUCCESS)
        => /\ IoBuffer.TotalSize = RoundedSize(last.Args)
           /\ {IO_BUFFER_FLAG_MEMORY_OWNED, IO_BUFFER_FLAG_MEMORY_LOCKED,
               IO_BUFFER_FLAG_MAPPED, IO_BUFFER_FLAG_VIRTUALLY_CONTIGUOUS,
               IO_BUFFER_FLAG_UNMAP_ON_FREE, IO_BUFFER_FLAG_NON_PAGED}
                 \subseteq IoBuffer.Flags
           /\ IF last.Args.PhysicallyContiguous
              THEN /\ IoBuffer.FragmentCount = 1
                   /\ ReadFragment(IoBuffer, 0)
                         = [VirtualAddress |-> last.Args.VirtualAddress,
                            PhysicalAddress |-> last.Args.Plan[1],
                            Size |-> RoundedSize(last.Args)]
              ELSE MaximalRuns(IoBuffer, last.Args)

\* Two adjacent pages in one fragment.
C27_Witness ==
    /\ life = "live"
    /\ last.Op = "construct"
    /\ last.Status = STATUS_SUCCESS
    /\ ~last.Args.PhysicallyContiguous
    /\ Len(last.Args.Plan) = 2
    /\ last.Args.Plan[2] = last.Args.Plan[1] + PageSize
    /\ IoBuffer.FragmentCount = 1
    /\ ReadFragment(IoBuffer, 0).Size = 2 * PageSize

\* The fragments that hold the byte at an offset from the start of the
\* buffer.
FragmentsHolding(b, Offset) ==
    {i \in 0 .. b.FragmentCount - 1 :
        /\ SumFragmentSizes(b, i) <= Offset
        /\ Offset < SumFragmentSizes(b, i) + ReadFragment(b, i).Size}

\* C28: MmGetIoBufferPhysicalAddress returns, for the one fragment that holds
\* the byte at CurrentOffset plus the offset, the fragment's physical address
\* plus the distance of that byte from the fragment's start; it returns
\* INVALID_PHYSICAL_ADDRESS when CurrentOffset plus the offset is at or past
\* TotalSize; and it changes nothing.
C28_PhysicalAddressAt ==
    [][(life = "live" /\ last'.Op = "lookup")
       => LET Offset == IoBuffer.CurrentOffset + last'.Args.IoBufferOffset
              Holding == FragmentsHolding(IoBuffer, Offset)
          IN /\ IF Offset >= IoBuffer.TotalSize
                THEN last'.Args.PhysicalAddress = INVALID_PHYSICAL_ADDRESS
                ELSE /\ Cardinality(Holding) = 1
                     /\ \A i \in Holding :
                           last'.Args.PhysicalAddress
                             = ReadFragment(IoBuffer, i).PhysicalAddress
                                 + (Offset - SumFragmentSizes(IoBuffer, i))
             /\ IoBuffer' = IoBuffer
             /\ life' = life
             /\ cacheRef' = cacheRef
             /\ lockCount' = lockCount
             /\ physAlloc' = physAlloc
             /\ vaReserved' = vaReserved]_vars

\* A lookup in the second fragment, with the cursor moved.
C28_Witness ==
    /\ life = "live"
    /\ last.Op = "lookup"
    /\ IoBuffer.FragmentCount = 2
    /\ IoBuffer.CurrentOffset > 0
    /\ last.Args.IoBufferOffset > 0
    /\ IoBuffer.CurrentOffset + last.Args.IoBufferOffset
          > ReadFragment(IoBuffer, 0).Size
    /\ last.Args.PhysicalAddress
          = ReadFragment(IoBuffer, 1).PhysicalAddress + 1

\* C29: a call of MmValidateIoBuffer with a physical range, and through it of
\* MmpExtendIoBuffer or MmAllocateNonPagedIoBuffer, either delivers only
\* pages that lie inside [MinimumPhysicalAddress, MaximumPhysicalAddress] or
\* fails without a buffer.
C29_PagesInsideRange ==
    [][(ValidateStep /\ last'.Status = STATUS_SUCCESS)
       => \A p \in physAlloc' \ physAlloc :
             /\ p * PageSize >= last'.Args.Min
             /\ p * PageSize + PageSize - 1 <= last'.Args.Max]_vars

\* C30: when MmMapIoBuffer returns success on a kernel buffer every fragment
\* has a virtual address, and when VirtuallyContiguous was asked for each
\* fragment's virtual address is the one before it plus that fragment's
\* size, whatever was done to the buffer before.
C30_MapSuccessMeansMapped ==
    (/\ life = "live"
     /\ last.Op = "map"
     /\ last.Status = STATUS_SUCCESS)
        => /\ \A i \in 0 .. IoBuffer.FragmentCount - 1 :
                 ReadFragment(IoBuffer, i).VirtualAddress # NULL
           /\ last.Args.VirtuallyContiguous
                 => \A i \in 0 .. IoBuffer.FragmentCount - 2 :
                       ReadFragment(IoBuffer, i + 1).VirtualAddress
                         = ReadFragment(IoBuffer, i).VirtualAddress
                             + ReadFragment(IoBuffer, i).Size

\* The physical address of the byte at Offset bytes from the start of the
\* buffer: it lies in the fragment holding that offset, as far from the
\* fragment's start as the offset is.
ByteAddress(b, Offset) ==
    LET i == CHOOSE j \in FragmentsHolding(b, Offset) : TRUE
    IN ReadFragment(b, i).PhysicalAddress + Offset - SumFragmentSizes(b, i)

\* The physical addresses of ByteCount bytes from Offset on.
RangeAddresses(b, Offset, ByteCount) ==
    {ByteAddress(b, o) : o \in Offset .. Offset + ByteCount - 1}

\* A call of MmZeroIoBuffer for a range within the buffer that returned
\* success.
ZeroedWithin ==
    /\ last'.Op = "zero"
    /\ last'.Status = STATUS_SUCCESS
    /\ life' = "live"
    /\ IoBuffer.CurrentOffset + last'.Args.Offset + last'.Args.ByteCount
          <= IoBuffer.TotalSize

\* The state a second MmZeroIoBuffer with the same arguments leaves, for
\* every answer the collaborators can give it.
ZeroedAgain ==
    {[b |-> p.b,
      memory |-> MmZeroIoBuffer(p, memory,
                                IoBuffer.CurrentOffset + last.Args.Offset,
                                last.Args.ByteCount, FALSE).memory] :
        p \in {q \in {ExtendAndMap(
                          IoBuffer,
                          IoBuffer.CurrentOffset + last.Args.Offset
                             + last.Args.ByteCount,
                          TRUE, <<INVALID_PHYSICAL_ADDRESS>>, cacheVa,
                          Garbage, MapPlan, vaReserved) :
                      Garbage \in GarbageChoices(IoBuffer),
                      MapPlan \in VaPlans} : q.Possible}}

\* C23: when MmZeroIoBuffer succeeds for an offset and a length within the
\* buffer, the bytes at CurrentOffset + Offset up to CurrentOffset + Offset +
\* ByteCount are zero and every other byte of memory is as it was; and a
\* second call with the same arguments leaves the bytes, the fragments, the
\* flags and the total size as the first call left them.
C23_ZeroIdempotent ==
    /\ [][ZeroedWithin =>
            /\ \A o \in IoBuffer.CurrentOffset + last'.Args.Offset ..
                         IoBuffer.CurrentOffset + last'.Args.Offset
                            + last'.Args.ByteCount - 1 :
                  /\ FragmentsHolding(IoBuffer', o) # {}
                  /\ memory'[ByteAddress(IoBuffer', o)] = 0
            /\ \A Address \in PhysicalBytes \
                     RangeAddresses(IoBuffer',
                                    IoBuffer.CurrentOffset
                                       + last'.Args.Offset,
                                    last'.Args.ByteCount) :
                  memory'[Address] = memory[Address]]_vars
    /\ []((/\ last.Op = "zero"
           /\ last.Status = STATUS_SUCCESS
           /\ life = "live"
           /\ IoBuffer.CurrentOffset + last.Args.Offset
                 + last.Args.ByteCount <= IoBuffer.TotalSize)
              => \A again \in ZeroedAgain :
                    /\ again.memory = memory
                    /\ again.b.Fragment = IoBuffer.Fragment
                    /\ again.b.FragmentCount = IoBuffer.FragmentCount
                    /\ again.b.Flags = IoBuffer.Flags
                    /\ again.b.TotalSize = IoBuffer.TotalSize)

\* No two offsets of the buffer are the same byte of memory.
NoSharedBytes(b) ==
    \A o1, o2 \in 0 .. b.TotalSize - 1 :
        (/\ o1 # o2
         /\ FragmentsHolding(b, o1) # {}
         /\ FragmentsHolding(b, o2) # {})
            => ByteAddress(b, o1) # ByteAddress(b, o2)

\* A call of MmCopyIoBufferData that returned success, on a buffer that
\* holds the range.
CopiedData ==
    /\ last'.Op = "copy data"
    /\ last'.Status = STATUS_SUCCESS
    /\ life' = "live"
    /\ NoSharedBytes(IoBuffer')
    /\ IoBuffer.CurrentOffset + last'.Args.Offset + last'.Args.Size
          <= IoBuffer'.TotalSize

\* The byte of memory at the k-th offset of that call's range.
CopiedByteAddress(k) ==
    ByteAddress(IoBuffer', IoBuffer.CurrentOffset + last'.Args.Offset + k - 1)

\* C24: a successful MmCopyIoBufferData with ToIoBuffer FALSE leaves in the
\* linear buffer, byte k of Size, the buffer's byte at offset CurrentOffset +
\* Offset + k - 1 counted through the fragments in order, and changes no
\* byte of memory; with ToIoBuffer TRUE it stores byte k of the linear
\* buffer at that offset of the buffer, and changes no other byte of memory
\* and not the linear buffer.
C24_CopyDataExact ==
    [][CopiedData =>
          /\ \A k \in 1 .. last'.Args.Size :
                FragmentsHolding(IoBuffer',
                                 IoBuffer.CurrentOffset + last'.Args.Offset
                                    + k - 1) # {}
          /\ IF last'.Args.ToIoBuffer
             THEN /\ \A k \in 1 .. last'.Args.Size :
                        memory'[CopiedByteAddress(k)]
                            = LinearBytes(last'.Args.Size)[k]
                  /\ \A Address \in PhysicalBytes \
                           {CopiedByteAddress(k) :
                               k \in 1 .. last'.Args.Size} :
                        memory'[Address] = memory[Address]
                  /\ last'.Args.Linear = LinearBytes(last'.Args.Size)
             ELSE /\ last'.Args.Linear
                        = [k \in 1 .. last'.Args.Size |->
                              memory[CopiedByteAddress(k)]]
                  /\ memory' = memory]_vars

\* A kernel buffer with every fragment mapped.
MappedKernelBuffer(b) ==
    /\ IO_BUFFER_FLAG_USER_MODE \notin b.Flags
    /\ b.FragmentCount # 0
    /\ \A i \in 0 .. b.FragmentCount - 1 :
          ReadFragment(b, i).VirtualAddress # NULL

\* The step that is the second of the two copies: ByteCount bytes went from
\* A's cursor to B's, and now go from B's cursor to C's, between mapped
\* kernel buffers that have as many bytes left.
CopiedOn ==
    /\ last.Op = "copy"
    /\ last.Status = STATUS_SUCCESS
    /\ last.Args.Destination = "B"
    /\ last.Args.Source = "A"
    /\ last.Args.DestinationOffset = 0
    /\ last.Args.SourceOffset = 0
    /\ last'.Op = "copy"
    /\ last'.Status = STATUS_SUCCESS
    /\ life' = "live"
    /\ last'.Args.Destination = "C"
    /\ last'.Args.Source = "B"
    /\ last'.Args.DestinationOffset = 0
    /\ last'.Args.SourceOffset = 0
    /\ last'.Args.ByteCount = last.Args.ByteCount
    /\ MappedKernelBuffer(peer.A)
    /\ MappedKernelBuffer(peer.B)
    /\ MappedKernelBuffer(IoBuffer)
    /\ IoBuffer.CurrentOffset + last.Args.ByteCount <= IoBuffer.TotalSize

\* C22: after ByteCount bytes are copied from A at its cursor to B at its
\* cursor and then from B at its cursor to C at its cursor, byte k from C's
\* cursor is the byte that was k from A's cursor before the copies, for
\* every k below ByteCount, and every byte of A is as it was before them.
C22_CopyChainCarriesBytes ==
    [][CopiedOn =>
          /\ \A k \in 0 .. last.Args.ByteCount - 1 :
                memory'[ByteAddress(IoBuffer', IoBuffer'.CurrentOffset + k)]
                    = last.Args.Before[
                          ByteAddress(peer.A, peer.A.CurrentOffset + k)]
          /\ \A o \in 0 .. peer.A.TotalSize - 1 :
                memory'[ByteAddress(peer.A, o)]
                    = last.Args.Before[ByteAddress(peer.A, o)]
          /\ peer'.A = peer.A]_vars

\* Four bytes went from A, one fragment read from its second byte on, by B,
\* two fragments, to C, whose cursor is at its start.
C22_Witness ==
    /\ last.Op = "copy"
    /\ last.Status = STATUS_SUCCESS
    /\ life = "live"
    /\ ~last.Args.First
    /\ last.Args.Destination = "C"
    /\ last.Args.DestinationOffset = 0
    /\ last.Args.SourceOffset = 0
    /\ last.Args.ByteCount = MaxBufferPages * PageSize - 1
    /\ peer.A.FragmentCount = 1
    /\ peer.A.CurrentOffset = 1
    /\ peer.B.FragmentCount = MaxBufferPages
    /\ peer.B.CurrentOffset = 0
    /\ IoBuffer.FragmentCount = MaxBufferPages
    /\ IoBuffer.CurrentOffset = 1
    /\ \A k \in 0 .. last.Args.ByteCount - 1 :
          memory[ByteAddress(IoBuffer, IoBuffer.CurrentOffset + k)]
              = InitialMemory[ByteAddress(peer.A, peer.A.CurrentOffset + k)]

\* C31: a call of MmMapIoBuffer that returns an error leaves the buffer as it
\* was before the call: the fragments and the flags are those of before, and
\* no virtual page reserved by the failed call stays reserved.
C31_FailedMapLeavesBuffer ==
    [][(last'.Op = "map" /\ last'.Status # STATUS_SUCCESS)
       => /\ IoBuffer' = IoBuffer
          /\ vaReserved' \subseteq vaReserved]_vars

\* A maximal run of consecutive fragments of b without a virtual address:
\* the fragments First .. End.
UnmappedRun(b, First, End) ==
    /\ First <= End
    /\ \A i \in First .. End : ReadFragment(b, i).VirtualAddress = NULL
    /\ First > 0 => ReadFragment(b, First - 1).VirtualAddress # NULL
    /\ End < b.FragmentCount - 1
          => ReadFragment(b, End + 1).VirtualAddress # NULL

\* The virtual pages under the fragments First .. End of b.
FragmentVaPages(b, First, End) ==
    UNION {RangePages(ReadFragment(b, i).VirtualAddress,
                      ReadFragment(b, i).Size) : i \in First .. End}

\* A step of MmMapIoBuffer(VirtuallyContiguous = FALSE) that went through
\* the scan of the fragments and returned success.
MappedPerFragment ==
    /\ last'.Op = "map"
    /\ last'.Status = STATUS_SUCCESS
    /\ ~last'.Args.VirtuallyContiguous
    /\ last'.Args.Path = "none"

\* C32: on the per-fragment path of MmMapIoBuffer the fragments that have a
\* virtual address keep it, every maximal run of consecutive fragments
\* without one gets one newly reserved range in which the fragments of the
\* run follow one another, no two runs share a page of their ranges, and on
\* success MAPPED and UNMAP_ON_FREE are set.
C32_PerFragmentMapping ==
    [][MappedPerFragment
       => /\ IoBuffer'.FragmentCount = IoBuffer.FragmentCount
          /\ \A i \in 0 .. IoBuffer.FragmentCount - 1 :
                /\ ReadFragment(IoBuffer', i).Size
                      = ReadFragment(IoBuffer, i).Size
                /\ ReadFragment(IoBuffer', i).PhysicalAddress
                      = ReadFragment(IoBuffer, i).PhysicalAddress
                /\ ReadFragment(IoBuffer, i).VirtualAddress # NULL
                      => ReadFragment(IoBuffer', i).VirtualAddress
                            = ReadFragment(IoBuffer, i).VirtualAddress
          /\ \A First, End \in 0 .. IoBuffer.FragmentCount - 1 :
                UnmappedRun(IoBuffer, First, End)
                   => /\ ReadFragment(IoBuffer', First).VirtualAddress # NULL
                      /\ \A i \in First .. End - 1 :
                            ReadFragment(IoBuffer', i + 1).VirtualAddress
                               = ReadFragment(IoBuffer', i).VirtualAddress
                                    + ReadFragment(IoBuffer', i).Size
                      /\ FragmentVaPages(IoBuffer', First, End)
                            \subseteq vaReserved' \ vaReserved
                      /\ \A i \in 0 .. IoBuffer.FragmentCount - 1 :
                            (/\ i < First \/ i > End
                             /\ ReadFragment(IoBuffer, i).VirtualAddress
                                   = NULL)
                               => FragmentVaPages(IoBuffer', i, i)
                                     \cap FragmentVaPages(IoBuffer', First,
                                                          End) = {}
          /\ IO_BUFFER_FLAG_MAPPED \in IoBuffer'.Flags
          /\ IO_BUFFER_FLAG_UNMAP_ON_FREE \in IoBuffer'.Flags]_vars

\* The scan has mapped two runs, one on each side of a fragment that kept
\* the address its caller gave it.
C32_Witness ==
    /\ life = "live"
    /\ last.Op = "map"
    /\ last.Status = STATUS_SUCCESS
    /\ ~last.Args.VirtuallyContiguous
    /\ last.Args.Path = "none"
    /\ IoBuffer.FragmentCount = 3
    /\ PageOf(ReadFragment(IoBuffer, 0).VirtualAddress) \in vaReserved
    /\ PageOf(ReadFragment(IoBuffer, 1).VirtualAddress) \in CallerVaPages
    /\ PageOf(ReadFragment(IoBuffer, 2).VirtualAddress) \in vaReserved
    /\ Cardinality(vaReserved) = 2

\* The fragment of b that holds the byte at Offset from the start of the
\* buffer, searched from fragment FragmentIndex on.
RECURSIVE FragmentAt(_, _, _)
FragmentAt(b, Offset, FragmentIndex) ==
    IF SumFragmentSizes(b, FragmentIndex + 1) > Offset THEN FragmentIndex
    ELSE FragmentAt(b, Offset, FragmentIndex + 1)

\* The virtual address of page PageIndex of b, NULL when its fragment has
\* none.
PageVirtualAddress(b, PageIndex) ==
    LET i == FragmentAt(b, PageIndex * PageSize, 0)
    IN IF ReadFragment(b, i).VirtualAddress = NULL THEN NULL
       ELSE ReadFragment(b, i).VirtualAddress
               + (PageIndex * PageSize - SumFragmentSizes(b, i))

\* The page is mapped where its cache entry is mapped: the address belongs
\* to the page cache.
CacheOwnsAddress(b, CacheVa, PageIndex) ==
    /\ b.PageCacheEntries[PageIndex] # NULL
    /\ CacheVa[b.PageCacheEntries[PageIndex]]
          = PageVirtualAddress(b, PageIndex)

\* The pages of b whose address MmpUnmapIoBuffer has to free.
PagesToUnmap(b, CacheVa) ==
    {k \in 0 .. b.TotalSize \div PageSize - 1 :
        /\ PageVirtualAddress(b, k) # NULL
        /\ ~CacheOwnsAddress(b, CacheVa, k)}

\* A step in which MmpUnmapIoBuffer ran on a cache-backed buffer of whole
\* pages, no two of them mapped at the same address: from MmpReleaseIoBufferResources, or from the contiguous path of
\* MmMapIoBuffer.
UnmappedCacheBacked ==
    /\ life = "live"
    /\ IO_BUFFER_FLAG_PAGE_CACHE_BACKED \in IoBuffer.Flags
    /\ ~NeedsGarbage(IoBuffer)
    /\ \A k, l \in 0 .. IoBuffer.TotalSize \div PageSize - 1 :
          (k # l /\ PageVirtualAddress(IoBuffer, k) # NULL)
             => PageVirtualAddress(IoBuffer, k)
                   # PageVirtualAddress(IoBuffer, l)
    /\ \/ /\ last'.Op = "release"
          /\ IO_BUFFER_FLAG_UNMAP_ON_FREE \in IoBuffer.Flags
       \/ /\ last'.Op = "map"
          /\ last'.Args.VirtuallyContiguous
          /\ last'.Args.Path = "none"
          /\ IO_BUFFER_FLAG_MAPPED \in IoBuffer.Flags

\* C33: when MmpUnmapIoBuffer runs on a cache-backed buffer, the address of
\* a page that is mapped where its cache entry is mapped is in no range
\* passed to MmpFreeAccountingRange, the address of every other mapped page
\* is in one such range, and each range is a maximal run: it holds only
\* such pages, and two of them that follow one another in the buffer and in
\* the address space are in the same range.
C33_UnmapSkipsCacheAddresses ==
    [][UnmappedCacheBacked
       => LET Ranges == UnmapRanges(IoBuffer, cacheVa, NULL)
              Va(k) == PageVirtualAddress(IoBuffer, k)
              ToUnmap == PagesToUnmap(IoBuffer, cacheVa)
              Within(k, r) == /\ Ranges[r][1] <= Va(k)
                              /\ Va(k) < Ranges[r][1] + Ranges[r][2]
          IN /\ \A k \in 0 .. IoBuffer.TotalSize \div PageSize - 1 :
                   (/\ Va(k) # NULL
                    /\ CacheOwnsAddress(IoBuffer, cacheVa, k))
                      => last'.Calls.Unmap[PageOf(Va(k))] = 0
             /\ \A k \in ToUnmap : last'.Calls.Unmap[PageOf(Va(k))] = 1
             /\ \A v \in VaPages :
                   last'.Calls.Unmap[v] > 0
                      => \E k \in ToUnmap : PageOf(Va(k)) = v
             /\ \A k \in ToUnmap :
                   (k + 1 \in ToUnmap /\ Va(k + 1) = Va(k) + PageSize)
                      => \E r \in 1 .. Len(Ranges) :
                            Within(k, r) /\ Within(k + 1, r)]_vars

\* A step of MmResetIoBuffer: a release that leaves the descriptor.
ResetStep ==
    /\ life = "live"
    /\ life' = "live"
    /\ last'.Op = "release"

\* C34: MmResetIoBuffer on a kernel buffer makes the calls MmFreeIoBuffer
\* would make on it, keeps the descriptor with MaxFragmentCount and PageCount
\* as they were, and clears the rest: FragmentCount, TotalSize and
\* CurrentOffset are 0, the fragment entries that were in use and all page
\* cache entry slots are empty, and MAPPED, VIRTUALLY_CONTIGUOUS and
\* UNMAP_ON_FREE are clear.  An MmFreeIoBuffer that follows makes no
\* releasing call.
C34_ResetClearsDescriptor ==
    [][/\ ResetStep
          => /\ \E Garbage \in GarbageChoices(IoBuffer) :
                   last'.Calls = ReleaseCalls(MmFreeIoBuffer(IoBuffer, cacheVa,
                                                             Garbage))
             /\ IoBuffer'.MaxFragmentCount = IoBuffer.MaxFragmentCount
             /\ IoBuffer'.PageCount = IoBuffer.PageCount
             /\ IoBuffer'.PceAllocated = IoBuffer.PceAllocated
             /\ IoBuffer'.FragmentCount = 0
             /\ IoBuffer'.TotalSize = 0
             /\ IoBuffer'.CurrentOffset = 0
             /\ \A i \in 0 .. IoBuffer.FragmentCount - 1 :
                   IoBuffer'.Fragment[i] = EmptyFragment
             /\ \A i \in DOMAIN IoBuffer'.PageCacheEntries :
                   IoBuffer'.PageCacheEntries[i] = NULL
             /\ IoBuffer'.Flags \cap {IO_BUFFER_FLAG_MAPPED,
                                      IO_BUFFER_FLAG_VIRTUALLY_CONTIGUOUS,
                                      IO_BUFFER_FLAG_UNMAP_ON_FREE} = {}
       /\ (/\ last.Op = "release"
           /\ life = "live"
           /\ life' = "freed")
          => last'.Calls = NoCalls]_vars

\* A buffer with two pages of its own, mapped, has just been reset: the
\* pages and the range were released and the descriptor is empty.
C34_Witness ==
    /\ life = "live"
    /\ last.Op = "release"
    /\ \E p, q \in Pages :
          p # q /\ last.Calls.Free[p] = 1 /\ last.Calls.Free[q] = 1
    /\ \E v \in VaPages : last.Calls.Unmap[v] = 1
    /\ IoBuffer.MaxFragmentCount >= 2
    /\ IoBuffer.FragmentCount = 0

\* Whether b takes Count more cache entries through MmIoBufferAppendPage
\* with every assertion of the routine holding, whichever entries they are.
RECURSIVE AcceptsAppends(_, _, _)
AcceptsAppends(b, Count, CacheVa) ==
    \/ Count = 0
    \/ \A Entry \in {1, 2} :
          /\ AppendPagePrecondition(b, Entry, INVALID_PHYSICAL_ADDRESS)
          /\ AcceptsAppends(
                 MmIoBufferAppendPage(b, Entry, NULL,
                                      INVALID_PHYSICAL_ADDRESS, CacheVa),
                 Count - 1, CacheVa)

\* C35: when MmValidateIoBufferForCachedIo returns success, the buffer it
\* leaves in *IoBuffer is PAGE_CACHE_BACKED and EXTENDABLE, has its cursor at
\* the end of the buffer, and takes as many cache entries as SizeInBytes has
\* pages through MmIoBufferAppendPage without breaking one of its assertions,
\* whether it is the caller's buffer or a fresh one.
C35_ValidatedForCachedIo ==
    (/\ last.Op = "validate cached"
     /\ last.Status = STATUS_SUCCESS)
        => /\ IO_BUFFER_FLAG_PAGE_CACHE_BACKED \in last.Out.Flags
           /\ IO_BUFFER_FLAG_EXTENDABLE \in last.Out.Flags
           /\ last.Out.CurrentOffset = last.Out.TotalSize
           /\ AcceptsAppends(
                  last.Out,
                  ALIGN_RANGE_UP(last.Args.SizeInBytes, PageSize)
                      \div PageSize,
                  cacheVa)

\* A step of MmZeroIoBuffer, or of MmCopyIoBufferData towards the buffer, on
\* a buffer that cannot be extended, for a range that runs past the last
\* fragment, in which the mapping did not fail and the kernel did not stop.
PastEndStep ==
    /\ life = "live"
    /\ life' = "live"
    /\ IO_BUFFER_FLAG_EXTENDABLE \notin IoBuffer.Flags
    /\ \/ /\ last'.Op = "zero"
          /\ IoBuffer.CurrentOffset + last'.Args.Offset
                + last'.Args.ByteCount
                > SumFragmentSizes(IoBuffer, IoBuffer.FragmentCount)
       \/ /\ last'.Op = "copy data"
          /\ last'.Args.ToIoBuffer
          /\ IoBuffer.CurrentOffset + last'.Args.Offset + last'.Args.Size
                > SumFragmentSizes(IoBuffer, IoBuffer.FragmentCount)
    /\ last'.Status \notin {STATUS_INSUFFICIENT_RESOURCES, STATUS_NO_MEMORY}

\* C36: MmZeroIoBuffer and MmCopyIoBufferData with ToIoBuffer set, asked for
\* a range that runs past the last fragment of a buffer that cannot be
\* extended, return STATUS_INCORRECT_BUFFER_SIZE and leave every byte of
\* the buffer as it was.
C36_PastEndLeavesBytes ==
    [][PastEndStep
       => /\ last'.Status = STATUS_INCORRECT_BUFFER_SIZE
          /\ memory' = memory]_vars


\* C37: MmFreeIoBuffer and MmResetIoBuffer pass to MmFreePhysicalPage only
\* pages the subsystem allocated for the buffer; a page the caller handed in
\* through MmIoBufferAppendPage is never freed, whatever came before.
C37_CallerPagesNeverFreed ==
    [][last'.Op = "release"
          => \A p \in CallerPages : last'.Calls.Free[p] = 0]_vars

\* MmMapIoBuffer is about to call MmpUnmapIoBuffer: a contiguous mapping of a
\* buffer that has MAPPED set and is not already mapped that way.
MapCallsUnmap ==
    /\ last'.Op = "map"
    /\ last'.Args.Path = "none"
    /\ last'.Args.VirtuallyContiguous
    /\ IO_BUFFER_FLAG_MAPPED \in IoBuffer.Flags

\* C38: only addresses the subsystem reserved reach MmpFreeAccountingRange.
\* Whenever MmMapIoBuffer calls MmpUnmapIoBuffer the buffer has
\* UNMAP_ON_FREE set, and no step of map, reset or free unmaps a page of
\* virtual addresses that the caller supplied through MmIoBufferAppendPage
\* or that a page cache entry brought with it.
C38_OnlyReservedAddressesUnmapped ==
    [][/\ MapCallsUnmap => IO_BUFFER_FLAG_UNMAP_ON_FREE \in IoBuffer.Flags
       /\ last'.Op \in {"map", "release"}
             => \A v \in VaPages \ VaPool : last'.Calls.Unmap[v] = 0]_vars

\* The fragment-table indexes the two cursors of MmCopyIoBuffer's loop read
\* from the given locals on: the current fragment of each side every round,
\* and the entry a side steps to when its fragment is used up.
RECURSIVE CopyFragmentReads(_, _, _, _, _)
CopyFragmentReads(Destination, Source, d, s, ByteCount) ==
    IF \/ ByteCount = 0
       \/ d.Index >= Destination.FragmentCount
       \/ s.Index >= Source.FragmentCount
    THEN [Destination |-> {}, Source |-> {}]
    ELSE LET BytesThisRound == Smaller(Smaller(d.Max, s.Max), ByteCount)
             d1 == CopyAdvance(Destination, d, BytesThisRound)
             s1 == CopyAdvance(Source, s, BytesThisRound)
             Rest == CopyFragmentReads(Destination, Source, d1, s1,
                                       ByteCount - BytesThisRound)
         IN [Destination |-> {d.Index, d1.Index} \cup Rest.Destination,
             Source |-> {s.Index, s1.Index} \cup Rest.Source]

\* A copy of at least one byte that succeeded with both ranges inside the
\* buffers as they were.
CopiedInside ==
    /\ last'.Op = "copy"
    /\ last'.Status = STATUS_SUCCESS
    /\ life' = "live"
    /\ last'.Args.ByteCount > 0
    /\ LET Destination == Descriptor(last'.Args.Destination)
           Source == Descriptor(last'.Args.Source)
       IN /\ last'.Args.DestinationOffset + Destination.CurrentOffset
                 + last'.Args.ByteCount <= Destination.TotalSize
          /\ last'.Args.SourceOffset + Source.CurrentOffset
                 + last'.Args.ByteCount <= Source.TotalSize

\* C39: during MmCopyIoBuffer with both ranges inside their buffers, the
\* destination and the source cursor read only fragment-table entries with
\* an index below their buffer's FragmentCount, also when the copy ends at
\* the end of the last fragment of either buffer.
C39_CursorsReadFragmentsInUse ==
    [][CopiedInside
       => LET Destination == Descriptor(last'.Args.Destination)
              Source == Descriptor(last'.Args.Source)
              Reads == CopyFragmentReads(
                           Destination, Source,
                           CopyCursor(Destination,
                                      last'.Args.DestinationOffset
                                          + Destination.CurrentOffset),
                           CopyCursor(Source,
                                      last'.Args.SourceOffset
                                          + Source.CurrentOffset),
                           last'.Args.ByteCount)
          IN /\ \A i \in Reads.Destination : i < Destination.FragmentCount
             /\ \A i \in Reads.Source : i < Source.FragmentCount]_vars

\* An iteration of the page loop that was not sent round again.
CreateIterated ==
    /\ CreateLoopRunning
    /\ last'.Op = "create page"
    /\ last'.Args.PageIndex # last.Args.PageIndex

\* C40: MmCreateIoBuffer with LockMemory terminates.  When MmpPageIn does not
\* answer STATUS_TRY_AGAIN for ever for a page, the page loop reaches the end
\* address or leaves by a failure exit; every iteration that is not retried
\* advances the address by at least one byte and at most one page, and never
\* past the end address.
C40_CreateLoopTerminates ==
    /\ [][CreateIterated
          => /\ last'.Args.CurrentAddress - last.Args.CurrentAddress
                   \in 1 .. PageSize
             /\ last'.Args.CurrentAddress <= last.Args.EndAddress
             /\ last'.Args.PageIndex = last.Args.PageIndex + 1]_vars
    /\ CreateLoopRunning ~> (~CreateLoopRunning /\ life \in {"live", "freed"})

\* The loop has returned a descriptor of two fragments after MmpPageIn
\* answered STATUS_TRY_AGAIN on the way.
C40_Witness ==
    /\ life = "live"
    /\ last.Op = "construct"
    /\ last.Args.Retried
    /\ IoBuffer.FragmentCount = 2
    /\ IoBuffer.TotalSize > PageSize
    /\ IO_BUFFER_FLAG_MEMORY_LOCKED \in IoBuffer.Flags

====
